---- MODULE Spec2Model ----
(***************************************************************************)
(* A model of the module-dispatch and data-collection pipeline of          *)
(* AzureMated (FabricFriend).                                              *)
(*                                                                         *)
(*   Spec      utils/module_loader.py: one call of load_and_run, stepped   *)
(*             through its try block and its two exception handlers.       *)
(*   TopoSpec  modules/azure_topology.py: one call of run, stepped through *)
(*             the retry-wrapped list calls of AzureTopologyManager, the   *)
(*             per-subscription loop and the four CSV writes.              *)
(*                                                                         *)
(* Each specification leaves the other one's variables at their idle       *)
(* values.                                                                 *)
(***************************************************************************)
EXTENDS Integers, Sequences, FiniteSets, TLC

VARIABLES
    \* ---- load_and_run (utils/module_loader.py) ----
    ld_pc,          \* position inside load_and_run
    importResult,   \* what importlib.import_module(module_name) does
    moduleAttrs,    \* the attribute names hasattr finds on the module
    callerArgs,     \* the caller's args argument: [isNone, map]
    command,        \* the caller's command argument (None when absent)
    args,           \* the local variable args
    func_name,      \* the local variable func_name
    calls,          \* the entry points invoked so far: [name, kwargs, beh]
    pending,        \* the exception travelling to a handler
    outcome,        \* how the call ended: [kind, val, exc]
    heap,           \* the dict objects load_and_run can write to, by name
    \* ---- run (modules/azure_topology.py) ----
    tp_pc,          \* position inside run
    tenancy,        \* what the Azure APIs list: [subs, items] counts
    faults,         \* failures the external services have injected so far
    subscription_id,\* run's subscription_id argument (NoFilter when falsy)
    site,           \* the list call the retry log below belongs to
    callState,      \* "none", "running", "ok" or "exhausted"
    attempt,        \* the loop variable of the current retry loop
    tries,          \* outcomes of the attempts of the current list call
    sleeps,         \* time.sleep calls of the current list call: [after, d]
    lastError,      \* the exception of the most recent failed attempt
    subscriptions,  \* get_subscriptions' list, then run's subscriptions
    management_groups,
    resource_groups,\* get_resource_groups_and_resources' local list
    resources,      \* get_resource_groups_and_resources' local list
    all_resource_groups,
    all_resources,
    targets,        \* target_subscriptions still to be processed
    mgDegraded,     \* get_management_groups gave up and returned []
    nestedCalls,    \* subscription ids nested collection was called for
    nestedLog,      \* how each nested collection ended: [sub, ok, rgs, res]
    files,          \* dataset name -> [exists, header, rows]
    writeOrder,     \* datasets written by this run, in order
    tp_outcome,     \* how run ended: [kind, summary, exc]
    \* ---- write_csv_with_schema (utils/csv_writer.py) ----
    cw_pc,          \* position inside write_csv_with_schema
    cw_via,         \* the function the caller called
    cw_path,        \* the file_path argument: [dir, name]
    cw_data,        \* the data argument
    cw_schema,      \* the schema argument (NoSchema when falsy)
    cw_fieldnames,  \* the local variable fieldnames
    cw_dirs,        \* the directories that exist
    cw_fs,          \* path -> [exists, header, rows]
    cw_last,        \* path -> the successful writes since the file was last
                    \* left otherwise: [n, data, schema] of the latest
    cw_calls,       \* calls made so far
    cw_outcome,     \* how the call ended: [kind, exc]
    \* ---- run (modules/powerbi.py) ----
    pb_pc,          \* position inside run
    pb_org,         \* what the Power BI Admin API lists: [workspaces, items] counts
    capacities,
    groups,
    users,
    dashboards,
    dataflows,
    datasets,
    pb_todo,        \* the workspaces the loop `for g in groups` has still to visit
    pb_files,       \* dataset name -> [exists, header, rows]
    pb_written,     \* datasets written by this run, in order
    pb_outcome,     \* how run ended: [kind, summary, exc]
    \* ---- run_module (main.py) ----
    mn_pc,          \* position inside run_module
    namespace,      \* vars(args): the parsed command line, key -> value
    loaderCalls,    \* the load_and_run calls made so far: [module, args, command]
    mn_end,         \* how run_module ended: [how, status, exc]
    \* ---- the module-level managers (modules/*.py) ----
    managers,       \* module -> subscription_id of its cached manager
    mc_last,        \* the latest invocation: [module, requested, key, used, reused]
    mc_n,           \* the number of the invocation to make next (0: none)
    \* ---- create_azure_topology_visualizations (utils/visualisations.py) ----
    vz_pc,          \* position inside the function
    vz_dir_ok,      \* whether os.makedirs(output_dir) can succeed
    vz_files,       \* dataset -> "missing", "zero" (0 bytes), "header" or "rows"
    vz_frames,      \* dataset -> the DataFrame loaded: "unset", "empty" or "rows"
    vz_rendered,    \* renderer calls so far: [renderer, created]
    vz_result,      \* how the call ended: [kind, val, exc]
    \* ---- PowerBIManager._api_get (modules/powerbi.py) ----
    pg_pc,          \* position inside _api_get and _get_access_token
    pg_n,           \* _api_get calls started on this manager
    pg_token,       \* self._token
    pg_token0,      \* self._token when the current call started
    pg_exchanges,   \* token exchanges of the current call: [via, ok]
    pg_chain,       \* what the endpoint serves: [pages, failAt]
    pg_url,         \* the page the local variable url points to (0: None)
    pg_requests,    \* pages requested by the current call, in order
    pg_results,     \* the local variable results
    pg_outcome      \* how the current call ended: [kind, val, exc]

ldVars == <<ld_pc, importResult, moduleAttrs, callerArgs, command, args,
            func_name, calls, pending, outcome, heap>>
tpVars == <<tp_pc, tenancy, faults, subscription_id, site, callState,
            attempt, tries, sleeps, lastError,
            subscriptions, management_groups, resource_groups, resources,
            all_resource_groups, all_resources, targets, mgDegraded,
            nestedCalls, nestedLog, files, writeOrder, tp_outcome>>
cwVars == <<cw_pc, cw_via, cw_path, cw_data, cw_schema, cw_fieldnames, cw_dirs,
            cw_fs, cw_last, cw_calls, cw_outcome>>
pbVars == <<pb_pc, pb_org, capacities, groups, users, dashboards, dataflows,
            datasets, pb_todo, pb_files, pb_written, pb_outcome>>
mnVars == <<mn_pc, namespace, loaderCalls, mn_end>>
mcVars == <<managers, mc_last, mc_n>>
vzVars == <<vz_pc, vz_dir_ok, vz_files, vz_frames, vz_rendered, vz_result>>
pgVars == <<pg_pc, pg_n, pg_token, pg_token0, pg_exchanges, pg_chain, pg_url,
            pg_requests, pg_results, pg_outcome>>
vars == <<ldVars, tpVars, cwVars, pbVars, mnVars, mcVars, vzVars, pgVars>>

\* Python's None, for the string-valued arguments and results.
None == "None"

(***************************************************************************)
(* Exceptions are [type, msg].  NoExc stands for "no exception".           *)
(***************************************************************************)
Exc(t, m) == [type |-> t, msg |-> m]
NoExc == Exc("", "")

\* ====================================================================
\*  utils/module_loader.py
\* ====================================================================

\* Attribute names a module may carry; "run" is the default entry point.
AttrNames == {"run", "list", "get"}
\* Command names a caller may request.
CommandNames == {"run", "list", "get"}
\* Keys and values of the caller's argument mapping.  "command" is the
\* key load_and_run reserves; a caller may carry it already.
ArgKeys == {"subscription_id", "command"}
ArgVals == {"sub-1", "get"}
ArgMaps == UNION {[ks -> ArgVals] : ks \in SUBSET ArgKeys}
EmptyMap == [k \in {} |-> None]

\* What an entry point does when called: return a value or raise.
EntryResults == {"r1", "r2"}
EntryExcs == {Exc("ValueError", "Test error"),
              Exc("ImportError", "lazy import failed"),
              Exc("SystemExit", "1"),
              Exc("KeyboardInterrupt", "")}
Behaviours == {[kind |-> "return", val |-> v, exc |-> NoExc] : v \in EntryResults}
              \cup {[kind |-> "raise", val |-> None, exc |-> e] : e \in EntryExcs}

\* What importing the module does.
ImportOk == [ok |-> TRUE, exc |-> NoExc]
ImportResults == {ImportOk,
                  [ok |-> FALSE, exc |-> Exc("ImportError", "Module not found")],
                  [ok |-> FALSE, exc |-> Exc("SyntaxError", "invalid syntax")]}

NoOutcome == [kind |-> "none", val |-> None, exc |-> NoExc]
Returned(v) == [kind |-> "returned", val |-> v, exc |-> NoExc]
Raised(e) == [kind |-> "raised", val |-> None, exc |-> e]

\* Exception classes that derive from ImportError / do not derive from
\* Exception, as the except clauses of load_and_run see them.
ImportErrorTypes == {"ImportError"}
BaseExceptionOnly == {"SystemExit", "KeyboardInterrupt"}

\* `if command` : a command is given when it is truthy.  None stands for
\* every falsy command (None, ""): lines 77, 80 and 94 only test truthiness.
Given(c) == c # None

\* args = {} if args is None
DefaultArgs(a) == IF a.isNone THEN EmptyMap ELSE a.map

\* func_name = command if command else "run"
InitialFuncName(c) == IF Given(c) THEN c ELSE "run"

\* if command and not hasattr(module, func_name): func_name = "run"
NeedsFallback(c, fn, attrs) == Given(c) /\ fn \notin attrs

\* if not hasattr(module, func_name): raise AttributeError(...)
\* func_name is always "run" when this is raised.
MutEntryPointNeverMissing(fn, attrs) == FALSE
EntryPointMissing(fn, attrs) == fn \notin attrs
EntryPointMissingError(fn) == Exc("AttributeError", "Module does not have a run function")

\* if func_name == "run" and command:
MutShouldInjectAnyCommand(fn, c) == Given(c)
MutShouldInjectAnyRun(fn, c) == fn = "run"
ShouldInject(fn, c) == fn = "run" /\ Given(c)

\* args_with_command = args.copy(); args_with_command["command"] = command
MutWithCommandDropped(a, c) == a
WithCommand(a, c) ==
    [k \in DOMAIN a \cup {"command"} |-> IF k = "command" THEN c ELSE a[k]]

\* The keyword arguments the entry point is called with.
CallKwargs(a, fn, c) == IF ShouldInject(fn, c) THEN WithCommand(a, c) ELSE a

\* return func(**...): the entry point's value is the call's value.
MutReturnValueDropped(v) == None
ReturnValue(v) == v

\* The except clause an exception raised inside the try block reaches.
HandlerFor(e) ==
    IF e.type \in ImportErrorTypes THEN "except_import"
    ELSE IF e.type \in BaseExceptionOnly THEN "uncaught"
    ELSE "except_other"

\* except ImportError as e: log.error(...); raise
MutImportErrorSwallowed(e) == Returned(None)
ImportErrorHandler(e) == Raised(e)

\* except Exception as e: log.error(...); raise
MutExceptionWrapped(e) == Raised(Exc("RuntimeError", e.msg))
ExceptionHandler(e) == Raised(e)

\* The dict objects of one call.  "args" is the object the parameter args
\* is bound to: the caller's own mapping, or the {} of line 69 when the
\* caller passed None.  "args_with_command" is the object line 96 binds.
\* func(**m) hands the entry point a new dict built from m, so the entry
\* point holds no reference to either object.
ObjectNames == {"args", "args_with_command"}
HeapOf(m) == [o \in ObjectNames |-> IF o = "args" THEN m ELSE EmptyMap]

\* args.copy() (line 96): the object the name args_with_command is bound
\* to, a new dict with the content of the object copied.
MutArgsCopyAliases(o) == o
ArgsCopy(o) == "args_with_command"

\* Lines 96-97 on the heap: bind args_with_command, then store the command
\* in the object it is bound to.
HeapAfterInjection(h, c) ==
    LET target == ArgsCopy("args")
        copied == [h EXCEPT ![target] = h["args"]]
    IN [copied EXCEPT ![target] = WithCommand(copied[target], c)]

LoaderIdle ==
    /\ ld_pc = "idle"
    /\ importResult = ImportOk
    /\ moduleAttrs = {}
    /\ callerArgs = [isNone |-> TRUE, map |-> EmptyMap]
    /\ command = None
    /\ args = EmptyMap
    /\ func_name = None
    /\ calls = <<>>
    /\ pending = NoExc
    /\ outcome = NoOutcome
    /\ heap = HeapOf(EmptyMap)

\* Lines 68-74: default the arguments, import the module.
LdImport ==
    /\ ld_pc = "start"
    /\ args' = DefaultArgs(callerArgs)
    /\ IF importResult.ok
         THEN ld_pc' = "resolve" /\ pending' = pending
         ELSE ld_pc' = HandlerFor(importResult.exc) /\ pending' = importResult.exc
    /\ UNCHANGED <<importResult, moduleAttrs, callerArgs, command, func_name,
                   calls, outcome, heap, tpVars, cwVars, pbVars, mnVars, mcVars, vzVars, pgVars>>

\* Lines 77-87: choose the function name, fall back to "run", and raise
\* AttributeError when the module has not got it.
LdResolve ==
    /\ ld_pc = "resolve"
    /\ LET fn0 == InitialFuncName(command)
           fn == IF NeedsFallback(command, fn0, moduleAttrs) THEN "run" ELSE fn0
       IN /\ func_name' = fn
          /\ IF EntryPointMissing(fn, moduleAttrs)
               THEN /\ pending' = EntryPointMissingError(fn)
                    /\ ld_pc' = HandlerFor(EntryPointMissingError(fn))
               ELSE /\ pending' = pending
                    /\ ld_pc' = "invoke"
    /\ UNCHANGED <<importResult, moduleAttrs, callerArgs, command, args,
                   calls, outcome, heap, tpVars, cwVars, pbVars, mnVars, mcVars, vzVars, pgVars>>

\* Lines 90-100: get the function and call it; it returns or raises.
LdInvoke ==
    /\ ld_pc = "invoke"
    /\ \E b \in Behaviours :
         /\ calls' = Append(calls, [name |-> func_name,
                                    kwargs |-> CallKwargs(args, func_name, command),
                                    beh |-> b])
         /\ IF b.kind = "return"
              THEN /\ outcome' = Returned(ReturnValue(b.val))
                   /\ ld_pc' = "done"
                   /\ pending' = pending
              ELSE /\ outcome' = outcome
                   /\ ld_pc' = HandlerFor(b.exc)
                   /\ pending' = b.exc
    /\ heap' = IF ShouldInject(func_name, command)
                 THEN HeapAfterInjection(heap, command)
                 ELSE heap
    /\ UNCHANGED <<importResult, moduleAttrs, callerArgs, command, args,
                   func_name, tpVars, cwVars, pbVars, mnVars, mcVars, vzVars, pgVars>>

\* Lines 102-104.
LdExceptImportError ==
    /\ ld_pc = "except_import"
    /\ outcome' = ImportErrorHandler(pending)
    /\ ld_pc' = "done"
    /\ UNCHANGED <<importResult, moduleAttrs, callerArgs, command, args,
                   func_name, calls, pending, heap, tpVars, cwVars, pbVars, mnVars, mcVars, vzVars, pgVars>>

\* Lines 105-109.
LdExceptException ==
    /\ ld_pc = "except_other"
    /\ outcome' = ExceptionHandler(pending)
    /\ ld_pc' = "done"
    /\ UNCHANGED <<importResult, moduleAttrs, callerArgs, command, args,
                   func_name, calls, pending, heap, tpVars, cwVars, pbVars, mnVars, mcVars, vzVars, pgVars>>

\* An exception neither except clause matches leaves load_and_run as it is.
LdUncaught ==
    /\ ld_pc = "uncaught"
    /\ outcome' = Raised(pending)
    /\ ld_pc' = "done"
    /\ UNCHANGED <<importResult, moduleAttrs, callerArgs, command, args,
                   func_name, calls, pending, heap, tpVars, cwVars, pbVars, mnVars, mcVars, vzVars, pgVars>>

\* ====================================================================
\*  modules/azure_topology.py
\* ====================================================================

\* Bounds of the modelled tenancy: how many subscriptions the Azure APIs
\* list at most, how many items (management groups, resource groups of a
\* subscription, pages of resources of a subscription) each of the other
\* lists holds at most, how many resources one page of client.resources.list()
\* holds, and how many failures the APIs inject during one run.
MaxSubs == 2
MaxItems == 1
ResPageSize == 3
MaxFaults == 3

\* for attempt in range(3)  /  if attempt == 2
MaxAttempts == 3
LastAttempt == 2

\* A falsy subscription_id (None, ""): `if subscription_id` is false.
NoFilter == 0

DatasetNames == {"subscriptions", "management_groups", "resource_groups", "resources"}

\* CSV_SCHEMAS
CSV_SCHEMAS ==
    [subscriptions |-> <<"subscription_id", "display_name", "state", "tenant_id",
                         "authorization_source">>,
     management_groups |-> <<"id", "name", "display_name", "tenant_id", "type">>,
     resource_groups |-> <<"subscription_id", "name", "location", "id", "type",
                           "provisioning_state", "tags">>,
     resources |-> <<"subscription_id", "resource_group", "name", "type", "location",
                     "id", "kind", "sku", "tags">>,
     default |-> <<"id", "name", "type">>]

\* Every field name of the module in the order sorted() puts them.
SortedFieldNames ==
    <<"authorization_source", "display_name", "id", "kind", "location",
      "managed_by_tenants", "name", "provisioning_state", "resource_group",
      "sku", "state", "subscription_id", "tags", "tenant_id", "type">>

\* The dictionaries built from the objects the APIs list (item i of a list).
SubDict(i) ==
    [subscription_id |-> i, display_name |-> "sub", state |-> "Enabled",
     tenant_id |-> "tenant", authorization_source |-> "RoleBased",
     managed_by_tenants |-> "[]"]
MgDict(i) ==
    [id |-> i, name |-> "mg", display_name |-> "mg", tenant_id |-> "tenant",
     type |-> "Microsoft.Management/managementGroups"]
RgDict(sub, i) ==
    [subscription_id |-> sub, name |-> "rg", location |-> "westeurope",
     id |-> <<sub, i>>, type |-> "Microsoft.Resources/resourceGroups",
     provisioning_state |-> "Succeeded", tags |-> ""]
ResourceDict(sub, i) ==
    [subscription_id |-> sub, resource_group |-> "rg", name |-> "res",
     type |-> "Microsoft.Storage/storageAccounts", location |-> "westeurope",
     id |-> <<sub, "rg", i>>, kind |-> "StorageV2", sku |-> "Standard_LRS",
     tags |-> ""]

\* The exceptions of this module: [type, what, detail].
NoError == [site |-> "", attempt |-> 0]
NoTopoExc == [type |-> "", what |-> "", detail |-> NoError]
AzureError(what, e) == [type |-> "AzureError", what |-> what, detail |-> e]
OSError(what) == [type |-> "OSError", what |-> what, detail |-> NoError]
\* The exception the external call raises at attempt number k of a site.
AttemptError(s, k) == [site |-> s, attempt |-> k]
ClientError(s) == [site |-> s, attempt |-> 0]

NoSummary == [subscriptions |-> -1, management_groups |-> -1,
              resource_groups |-> -1, resources |-> -1]
TpNone == [kind |-> "none", summary |-> NoSummary, exc |-> NoTopoExc]
TpReturned(sm) == [kind |-> "returned", summary |-> sm, exc |-> NoTopoExc]
TpRaised(e) == [kind |-> "raised", summary |-> NoSummary, exc |-> e]

AbsentFile == [exists |-> FALSE, header |-> <<>>, rows |-> <<>>]
OldFile == [exists |-> TRUE, header |-> <<"old">>, rows |-> <<<<"stale">>>>]

\* The output directory as an earlier run may have left it: some of the
\* files exist with old content, the others do not exist yet.
LeftoverFiles ==
    [n \in DatasetNames |->
        IF n \in {"subscriptions", "resource_groups"} THEN OldFile ELSE AbsentFile]

\* time.sleep(2 ** attempt)
MutBackoffShifted(a) == 2 ^ (a + 1)
Backoff(a) == 2 ^ a

\* if attempt == 2:  # Last attempt
IsLastAttempt(a) == a = LastAttempt

\* What a list call does once its last attempt has failed with e.
\* get_subscriptions: raise AzureError(f"Failed to fetch subscriptions: {e}")
MutSubscriptionsDegrade(e) == [raises |-> FALSE, exc |-> NoTopoExc]
SubscriptionsGiveUp(e) ==
    [raises |-> TRUE, exc |-> AzureError("Failed to fetch subscriptions", e)]
\* get_management_groups: log, return []
MutManagementGroupsRaise(e) ==
    [raises |-> TRUE, exc |-> AzureError("Failed to fetch management groups", e)]
ManagementGroupsGiveUp(e) == [raises |-> FALSE, exc |-> NoTopoExc]

\* The retry log of list call s as the next loop iteration finds it: the
\* running call's log, or a fresh one when the call is only starting.
Running(s) == site = s /\ callState = "running"
CurAttempt(s) == IF Running(s) THEN attempt ELSE 0
CurTries(s) == IF Running(s) THEN tries ELSE <<>>
CurSleeps(s) == IF Running(s) THEN sleeps ELSE <<>>

\* The external services may fail while the fault budget lasts.
MayFail == faults < MaxFaults

\* One iteration of `for attempt in range(3)` at list call s: the attempt
\* succeeds (break), or it fails and is followed by a sleep and the next
\* iteration, or it is the last attempt and the call gives up.
RetryAttempt(s, ok) ==
    /\ site' = s
    /\ tries' = Append(CurTries(s), ok)
    /\ faults' = IF ok THEN faults ELSE faults + 1
    /\ lastError' = IF ok THEN NoError ELSE AttemptError(s, CurAttempt(s) + 1)
    /\ IF ok
         THEN /\ callState' = "ok"
              /\ attempt' = CurAttempt(s)
              /\ sleeps' = CurSleeps(s)
         ELSE IF IsLastAttempt(CurAttempt(s))
         THEN /\ callState' = "exhausted"
              /\ attempt' = CurAttempt(s)
              /\ sleeps' = CurSleeps(s)
         ELSE /\ callState' = "running"
              /\ sleeps' = Append(CurSleeps(s),
                                  [after |-> CurAttempt(s) + 1,
                                   d |-> Backoff(CurAttempt(s))])
              /\ attempt' = CurAttempt(s) + 1
GaveUp(s, ok) == ~ok /\ IsLastAttempt(CurAttempt(s))

\* What one attempt of a list call over n items yields: all n items when it
\* succeeds, the first j of them when it fails.  An attempt fails while an
\* item is fetched or converted, after the j items before it were appended.
Yield(n, ok, j) == IF ok THEN n ELSE j
PartialYields(n) == {j \in 0..n : j < n \/ n = 0}

\* target_subscriptions (lines 336-338)
MutTargetsUnfiltered(subs, filter) == subs
TargetSubscriptions(subs, filter) ==
    IF filter # NoFilter
      THEN SelectSeq(subs, LAMBDA sub : sub.subscription_id = filter)
      ELSE subs

\* The elements of a list.
Elems(seq) == {seq[i] : i \in 1..Len(seq)}

\* fieldnames = sorted({key for item in data for key in item.keys()})
SortedKeys(data) ==
    SelectSeq(SortedFieldNames,
              LAMBDA k : \E i \in 1..Len(data) : k \in DOMAIN data[i])

\* _write_csv's choice of fieldnames (lines 253-268).
Fieldnames(name, data) ==
    IF data = <<>> THEN CSV_SCHEMAS[name] ELSE SortedKeys(data)

\* csv.DictWriter: one cell per fieldname, "" for a key the row lacks.
CsvRow(item, fieldnames) ==
    [c \in 1..Len(fieldnames) |->
        IF fieldnames[c] \in DOMAIN item THEN item[fieldnames[c]] ELSE ""]

\* The file _write_csv leaves behind when nothing fails.
CsvFile(name, data) ==
    [exists |-> TRUE,
     header |-> Fieldnames(name, data),
     rows |-> [r \in 1..Len(data) |-> CsvRow(data[r], Fieldnames(name, data))]]

\* The order of the four _write_csv calls (lines 358-361).
MutWriteSequenceSwapped ==
    <<"subscriptions", "management_groups", "resources", "resource_groups">>
WriteSequence == <<"subscriptions", "management_groups", "resource_groups", "resources">>

\* The summary (lines 364-369).
MutSummaryCountsGroups(subs, mgs, rgs, res) ==
    [subscriptions |-> Len(subs), management_groups |-> Len(mgs),
     resource_groups |-> Len(rgs), resources |-> Len(rgs)]
Summary(subs, mgs, rgs, res) ==
    [subscriptions |-> Len(subs), management_groups |-> Len(mgs),
     resource_groups |-> Len(rgs), resources |-> Len(res)]

TopoIdle ==
    /\ tp_pc = "idle"
    /\ tenancy = [subs |-> 0, items |-> 0]
    /\ faults = 0
    /\ subscription_id = NoFilter
    /\ site = ""
    /\ callState = "none"
    /\ attempt = 0
    /\ tries = <<>>
    /\ sleeps = <<>>
    /\ lastError = NoError
    /\ subscriptions = <<>>
    /\ management_groups = <<>>
    /\ resource_groups = <<>>
    /\ resources = <<>>
    /\ all_resource_groups = <<>>
    /\ all_resources = <<>>
    /\ targets = <<>>
    /\ mgDegraded = FALSE
    /\ nestedCalls = <<>>
    /\ nestedLog = <<>>
    /\ files = [n \in DatasetNames |-> AbsentFile]
    /\ writeOrder = <<>>
    /\ tp_outcome = TpNone

retryVars == <<site, callState, attempt, tries, sleeps, lastError>>

\* run raises e (its except clause at lines 381-384 logs and re-raises).
RunRaises(e) ==
    /\ tp_pc' = "done"
    /\ tp_outcome' = TpRaised(e)

\* Lines 305-320: credential, manager, os.makedirs(output_dir).
TpStart ==
    /\ tp_pc = "start"
    /\ \/ tp_pc' = "subs_client" /\ UNCHANGED tp_outcome
       \/ RunRaises(OSError("makedirs"))
    /\ UNCHANGED <<tenancy, faults, subscription_id, retryVars, subscriptions,
                   management_groups, resource_groups, resources,
                   all_resource_groups, all_resources, targets, mgDegraded,
                   nestedCalls, nestedLog, files, writeOrder, ldVars, cwVars, pbVars, mnVars, mcVars, vzVars, pgVars>>

\* get_subscriptions, lines 97-101: _get_subscription_client().
TpSubsClient ==
    /\ tp_pc = "subs_client"
    /\ \/ /\ tp_pc' = "subs_list"
          /\ UNCHANGED <<tp_outcome, faults>>
       \/ /\ MayFail
          /\ faults' = faults + 1
          /\ RunRaises(AzureError("Failed to initialize subscription client",
                                  ClientError("subscriptions")))
    /\ UNCHANGED <<tenancy, subscription_id, retryVars, subscriptions,
                   management_groups, resource_groups, resources,
                   all_resource_groups, all_resources, targets, mgDegraded,
                   nestedCalls, nestedLog, files, writeOrder, ldVars, cwVars, pbVars, mnVars, mcVars, vzVars, pgVars>>

\* get_subscriptions, lines 104-129: one iteration of the retry loop.  The
\* list is appended to across attempts; it is created once, at line 98.
TpSubsAttempt ==
    /\ tp_pc = "subs_list"
    /\ \E ok \in BOOLEAN, j \in 0..tenancy.subs :
         /\ ~ok => MayFail
         /\ ok => j = tenancy.subs
         /\ ~ok => j \in PartialYields(tenancy.subs)
         /\ RetryAttempt("subscriptions", ok)
         /\ LET got == subscriptions \o [i \in 1..Yield(tenancy.subs, ok, j) |-> SubDict(i)]
                e == AttemptError("subscriptions", CurAttempt("subscriptions") + 1)
            IN IF ok
                 THEN /\ subscriptions' = got
                      /\ tp_pc' = "mgs_client"
                      /\ UNCHANGED tp_outcome
               ELSE IF ~GaveUp("subscriptions", ok)
                 THEN /\ subscriptions' = got
                      /\ UNCHANGED <<tp_pc, tp_outcome>>
               ELSE IF SubscriptionsGiveUp(e).raises
                 THEN /\ subscriptions' = got
                      /\ RunRaises(SubscriptionsGiveUp(e).exc)
               ELSE /\ subscriptions' = <<>>
                    /\ tp_pc' = "mgs_client"
                    /\ UNCHANGED tp_outcome
    /\ UNCHANGED <<tenancy, subscription_id, management_groups, resource_groups,
                   resources, all_resource_groups, all_resources, targets,
                   mgDegraded, nestedCalls, nestedLog, files, writeOrder, ldVars, cwVars, pbVars, mnVars, mcVars, vzVars, pgVars>>

\* run continues after get_management_groups returned mgs (lines 328-341):
\* the target subscriptions are chosen.
AfterManagementGroups(mgs) ==
    /\ management_groups' = mgs
    /\ targets' = TargetSubscriptions(subscriptions, subscription_id)
    /\ tp_pc' = IF TargetSubscriptions(subscriptions, subscription_id) = <<>>
                  THEN "write" ELSE "nested"
    /\ UNCHANGED tp_outcome

\* get_management_groups, lines 139-143 and 168-172: the client; a failure
\* to create it is caught and [] is returned.
TpMgClient ==
    /\ tp_pc = "mgs_client"
    /\ \/ /\ tp_pc' = "mgs_list"
          /\ UNCHANGED <<tp_outcome, faults, management_groups, targets, mgDegraded>>
       \/ /\ MayFail
          /\ faults' = faults + 1
          /\ mgDegraded' = TRUE
          /\ AfterManagementGroups(<<>>)
    /\ UNCHANGED <<tenancy, subscription_id, retryVars, subscriptions,
                   resource_groups, resources, all_resource_groups,
                   all_resources, nestedCalls, nestedLog, files, writeOrder, ldVars, cwVars, pbVars, mnVars, mcVars, vzVars, pgVars>>

\* get_management_groups, lines 146-175: one iteration of the retry loop.
TpMgAttempt ==
    /\ tp_pc = "mgs_list"
    /\ \E ok \in BOOLEAN, j \in 0..tenancy.items :
         /\ ~ok => MayFail
         /\ ok => j = tenancy.items
         /\ ~ok => j \in PartialYields(tenancy.items)
         /\ RetryAttempt("management_groups", ok)
         /\ LET got == management_groups \o [i \in 1..Yield(tenancy.items, ok, j) |-> MgDict(i)]
                e == AttemptError("management_groups", CurAttempt("management_groups") + 1)
            IN IF ok
                 THEN /\ AfterManagementGroups(got)
                      /\ UNCHANGED mgDegraded
               ELSE IF ~GaveUp("management_groups", ok)
                 THEN /\ management_groups' = got
                      /\ UNCHANGED <<tp_pc, tp_outcome, targets, mgDegraded>>
               ELSE IF ManagementGroupsGiveUp(e).raises
                 THEN /\ management_groups' = got
                      /\ RunRaises(ManagementGroupsGiveUp(e).exc)
                      /\ UNCHANGED <<targets, mgDegraded>>
               ELSE /\ mgDegraded' = TRUE
                    /\ AfterManagementGroups(<<>>)
    /\ UNCHANGED <<tenancy, subscription_id, subscriptions, resource_groups,
                   resources, all_resource_groups, all_resources, nestedCalls, nestedLog,
                   files, writeOrder, ldVars, cwVars, pbVars, mnVars, mcVars, vzVars, pgVars>>

\* run moves on from the subscription at the head of targets, with or
\* without its records (lines 343-354).
NextTarget ==
    /\ targets' = Tail(targets)
    /\ tp_pc' = IF Tail(targets) = <<>> THEN "write" ELSE "nested"

\* all_resource_groups.extend(resource_groups) / all_resources.extend(resources)
MutExtendReplaces(all, got) == got
Extend(all, got) == all \o got

\* How the nested collection for the subscription at the head of targets
\* ended: it returned its two lists (line 245), or it raised after having
\* fetched rgs and run logged the error (lines 352-354).  The log keeps the
\* lengths of the lists.
NestedReturned(rgs, res) ==
    nestedLog' = Append(nestedLog, [sub |-> Head(targets).subscription_id,
                                    ok |-> TRUE, rgs |-> Len(rgs), res |-> Len(res)])
NestedRaised(rgs) ==
    nestedLog' = Append(nestedLog, [sub |-> Head(targets).subscription_id,
                                    ok |-> FALSE, rgs |-> Len(rgs), res |-> 0])

\* get_resource_groups_and_resources, lines 187-192, for the next target
\* subscription: fresh lists, then the resource client.  When the client
\* cannot be created the call raises and run skips the subscription.
TpNestedClient ==
    /\ tp_pc = "nested"
    /\ targets # <<>>
    /\ nestedCalls' = Append(nestedCalls, Head(targets).subscription_id)
    /\ resource_groups' = <<>>
    /\ resources' = <<>>
    /\ \/ /\ tp_pc' = "rg_list"
          /\ UNCHANGED <<faults, targets, nestedLog>>
       \/ /\ MayFail
          /\ faults' = faults + 1
          /\ NestedRaised(<<>>)
          /\ NextTarget
    /\ UNCHANGED <<tenancy, subscription_id, retryVars, subscriptions,
                   management_groups, all_resource_groups, all_resources,
                   mgDegraded, files, writeOrder, tp_outcome, ldVars, cwVars, pbVars, mnVars, mcVars, vzVars, pgVars>>

\* get_resource_groups_and_resources, lines 195-214: one iteration of the
\* resource-groups retry loop.
TpRgAttempt ==
    /\ tp_pc = "rg_list"
    /\ \E ok \in BOOLEAN, j \in 0..tenancy.items :
         /\ ~ok => MayFail
         /\ ok => j = tenancy.items
         /\ ~ok => j \in PartialYields(tenancy.items)
         /\ RetryAttempt("resource_groups", ok)
         /\ LET got == resource_groups \o
                    [i \in 1..Yield(tenancy.items, ok, j) |->
                        RgDict(Head(targets).subscription_id, i)]
            IN /\ resource_groups' = got
               /\ IF ok
                    THEN tp_pc' = "res_list" /\ UNCHANGED <<targets, nestedLog>>
                  ELSE IF ~GaveUp("resource_groups", ok)
                    THEN UNCHANGED <<tp_pc, targets, nestedLog>>
                  ELSE NestedRaised(got) /\ NextTarget
    /\ UNCHANGED <<tenancy, subscription_id, subscriptions, management_groups,
                   resources, all_resource_groups, all_resources, mgDegraded,
                   nestedCalls, files, writeOrder, tp_outcome, ldVars, cwVars, pbVars, mnVars, mcVars, vzVars, pgVars>>

\* get_resource_groups_and_resources, lines 217-245, and run, lines
\* 348-350: one iteration of the resources retry loop; when it succeeds the
\* call returns and run extends its aggregates.  The listing is paged: an
\* attempt that fails has appended the resources of the pages before the
\* one that failed.
TpResAttempt ==
    /\ tp_pc = "res_list"
    /\ \E ok \in BOOLEAN, j \in 0..tenancy.items :
         /\ ~ok => MayFail
         /\ ok => j = tenancy.items
         /\ ~ok => j \in PartialYields(tenancy.items)
         /\ RetryAttempt("resources", ok)
         /\ LET got == resources \o
                    [i \in 1..(Yield(tenancy.items, ok, j) * ResPageSize) |->
                        ResourceDict(Head(targets).subscription_id, i)]
            IN /\ resources' = got
               /\ IF ok
                    THEN /\ all_resource_groups' =
                              Extend(all_resource_groups, resource_groups)
                         /\ all_resources' = Extend(all_resources, got)
                         /\ NestedReturned(resource_groups, got)
                         /\ NextTarget
                  ELSE IF ~GaveUp("resources", ok)
                    THEN UNCHANGED <<tp_pc, targets, all_resource_groups,
                                     all_resources, nestedLog>>
                  ELSE /\ NestedRaised(resource_groups)
                       /\ NextTarget
                       /\ UNCHANGED <<all_resource_groups, all_resources>>
    /\ UNCHANGED <<tenancy, subscription_id, subscriptions, management_groups,
                   resource_groups, mgDegraded, nestedCalls, files, writeOrder,
                   tp_outcome, ldVars, cwVars, pbVars, mnVars, mcVars, vzVars, pgVars>>

\* The data run hands to the _write_csv call for a dataset.
DataFor(name) ==
    CASE name = "subscriptions" -> subscriptions
      [] name = "management_groups" -> management_groups
      [] name = "resource_groups" -> all_resource_groups
      [] name = "resources" -> all_resources

\* run, lines 356-379: the next _write_csv call; after the fourth, the
\* summary is returned.  A write that fails (open or write raises) leaves
\* the file as it was or truncated, and run raises.
TpWrite ==
    /\ tp_pc = "write"
    /\ Len(writeOrder) < Len(WriteSequence)
    /\ LET name == WriteSequence[Len(writeOrder) + 1]
       IN \/ /\ files' = [files EXCEPT ![name] = CsvFile(name, DataFor(name))]
             /\ writeOrder' = Append(writeOrder, name)
             /\ IF Len(writeOrder) + 1 = Len(WriteSequence)
                  THEN /\ tp_pc' = "done"
                       /\ tp_outcome' = TpReturned(Summary(subscriptions, management_groups,
                                                           all_resource_groups, all_resources))
                  ELSE UNCHANGED <<tp_pc, tp_outcome>>
          \/ /\ \/ UNCHANGED files
                \/ files' = [files EXCEPT ![name] =
                                [exists |-> TRUE, header |-> <<>>, rows |-> <<>>]]
             /\ UNCHANGED writeOrder
             /\ RunRaises(OSError(name))
    /\ UNCHANGED <<tenancy, faults, subscription_id, retryVars, subscriptions,
                   management_groups, resource_groups, resources,
                   all_resource_groups, all_resources, targets, mgDegraded,
                   nestedCalls, nestedLog, ldVars, cwVars, pbVars, mnVars, mcVars, vzVars, pgVars>>

\* ====================================================================
\*  utils/csv_writer.py
\* ====================================================================

\* Bounds of the modelled calls: how many records a data argument holds at
\* most and how many calls are made one after the other.
MaxRecords == 2
MaxWrites == 2

\* A falsy schema (None, []): `if schema` is false.
NoSchema == <<>>

\* The arguments the callers pass.
RecordPool ==
    {[id |-> "1", name |-> "a"],
     [name |-> "b", location |-> "x"],
     [id |-> "2", location |-> "y"]}
RecordLists == UNION {[1..n -> RecordPool] : n \in 0..MaxRecords}
Schemas == {NoSchema, <<"name", "id">>, <<"id", "name", "type">>}
Paths == {[dir |-> "out", name |-> "data.csv"], [dir |-> "", name |-> "data.csv"]}
Callers == {"write_csv_with_schema", "write_csv"}

FileNotFoundError(what) == [type |-> "FileNotFoundError", what |-> what, detail |-> NoError]
CwNone == [kind |-> "none", exc |-> NoTopoExc]
CwReturned == [kind |-> "returned", exc |-> NoTopoExc]
CwRaised(e) == [kind |-> "raised", exc |-> e]

NoWrite == [n |-> 0, data |-> <<>>, schema |-> NoSchema]

\* write_csv passes schema=None (line 92).
SchemaPassed(via, schema) == IF via = "write_csv" THEN NoSchema ELSE schema

\* fieldnames = ['id', 'name', 'type'] (line 40)
MutDefaultFieldnamesNone == <<>>
DefaultFieldnames == <<"id", "name", "type">>

\* Lines 36-52: the field names of the header.
ResolveFieldnames(data, schema) ==
    IF data = <<>>
      THEN IF schema # NoSchema THEN schema ELSE DefaultFieldnames
      ELSE IF schema # NoSchema THEN schema ELSE SortedKeys(data)

\* os.path.dirname(file_path)
Dirname(path) == path.dir

\* os.makedirs(name, exist_ok=True) raises FileNotFoundError for the empty name.
MakedirsRejects(name) == name = ""

\* {field: row.get(field, '') for field in fieldnames} (line 64)
MutFilteredRowDropsValue(row, fieldnames) ==
    [f \in Elems(fieldnames) |-> ""]
FilteredRow(row, fieldnames) ==
    [f \in Elems(fieldnames) |-> IF f \in DOMAIN row THEN row[f] ELSE ""]

\* Lines 60-67: the rows handed to writer.writerows, as DictWriter writes them.
WriterRows(data, schema, fieldnames) ==
    IF data = <<>> THEN <<>>
    ELSE IF schema # NoSchema
      THEN [r \in 1..Len(data) |-> CsvRow(FilteredRow(data[r], fieldnames), fieldnames)]
      ELSE [r \in 1..Len(data) |-> CsvRow(data[r], fieldnames)]

\* open(file_path, "w"): the file exists and is empty.
EmptyFile == [exists |-> TRUE, header |-> <<>>, rows |-> <<>>]
MutOpenAppends(old) == IF old.exists THEN old ELSE EmptyFile
OpenForWriting(old) == EmptyFile

\* writer.writeheader() and writer.writerows(): the lines follow what the
\* opened file holds.
WriteLines(f, header, rows) ==
    IF f = EmptyFile
      THEN [exists |-> TRUE, header |-> header, rows |-> rows]
      ELSE [exists |-> TRUE, header |-> f.header, rows |-> f.rows \o <<header>> \o rows]

\* The file a call that raises nothing leaves behind.
WrittenFile(old, data, schema) ==
    WriteLines(OpenForWriting(old), ResolveFieldnames(data, schema),
               WriterRows(data, schema, ResolveFieldnames(data, schema)))

CwIdle ==
    /\ cw_pc = "idle"
    /\ cw_via = ""
    /\ cw_path = [dir |-> "", name |-> ""]
    /\ cw_data = <<>>
    /\ cw_schema = NoSchema
    /\ cw_fieldnames = <<>>
    /\ cw_dirs = {}
    /\ cw_fs = [p \in Paths |-> AbsentFile]
    /\ cw_last = [p \in Paths |-> NoWrite]
    /\ cw_calls = 0
    /\ cw_outcome = CwNone

CwRaises(e) ==
    /\ cw_pc' = "done"
    /\ cw_outcome' = CwRaised(e)

\* A caller calls write_csv_with_schema(file_path, data, schema) or
\* write_csv(file_path, data) (lines 80-92).
CwCall ==
    /\ cw_pc = "idle"
    /\ cw_calls < MaxWrites
    /\ \E via \in Callers, path \in Paths, data \in RecordLists, schema \in Schemas :
         /\ via = "write_csv" => schema = NoSchema
         /\ cw_via' = via
         /\ cw_path' = path
         /\ cw_data' = data
         /\ cw_schema' = SchemaPassed(via, schema)
    /\ cw_pc' = "fieldnames"
    /\ cw_calls' = cw_calls + 1
    /\ cw_fieldnames' = <<>>
    /\ cw_outcome' = CwNone
    /\ UNCHANGED <<cw_dirs, cw_fs, cw_last, ldVars, tpVars, pbVars, mnVars, mcVars, vzVars, pgVars>>

\* Lines 36-52.
CwFieldnames ==
    /\ cw_pc = "fieldnames"
    /\ cw_fieldnames' = ResolveFieldnames(cw_data, cw_schema)
    /\ cw_pc' = "makedirs"
    /\ UNCHANGED <<cw_via, cw_path, cw_data, cw_schema, cw_dirs, cw_fs, cw_last,
                   cw_calls, cw_outcome, ldVars, tpVars, pbVars, mnVars, mcVars, vzVars, pgVars>>

\* Line 55: os.makedirs(os.path.dirname(file_path), exist_ok=True).  The
\* except clause (lines 72-74) logs and re-raises.
CwMakedirs ==
    /\ cw_pc = "makedirs"
    /\ IF MakedirsRejects(Dirname(cw_path))
         THEN /\ CwRaises(FileNotFoundError("makedirs"))
              /\ UNCHANGED cw_dirs
         ELSE \/ /\ cw_dirs' = cw_dirs \cup {Dirname(cw_path)}
                 /\ cw_pc' = "open"
                 /\ UNCHANGED cw_outcome
              \/ /\ Dirname(cw_path) \notin cw_dirs
                 /\ CwRaises(OSError("makedirs"))
                 /\ UNCHANGED cw_dirs
    /\ UNCHANGED <<cw_via, cw_path, cw_data, cw_schema, cw_fieldnames, cw_fs,
                   cw_last, cw_calls, ldVars, tpVars, pbVars, mnVars, mcVars, vzVars, pgVars>>

\* Lines 57-70: open, writeheader, writerows, close.  When the file system
\* refuses, open raises and the file is as it was, or a write raises and
\* the file is left as open made it.
CwWrite ==
    /\ cw_pc = "open"
    /\ \/ /\ cw_fs' = [cw_fs EXCEPT ![cw_path] =
                         WriteLines(OpenForWriting(cw_fs[cw_path]), cw_fieldnames,
                                    WriterRows(cw_data, cw_schema, cw_fieldnames))]
          /\ cw_last' = [cw_last EXCEPT ![cw_path] =
                            [n |-> cw_last[cw_path].n + 1, data |-> cw_data,
                             schema |-> cw_schema]]
          /\ cw_pc' = "done"
          /\ cw_outcome' = CwReturned
       \/ /\ CwRaises(OSError("open"))
          /\ UNCHANGED <<cw_fs, cw_last>>
       \/ /\ CwRaises(OSError("write"))
          /\ cw_fs' = [cw_fs EXCEPT ![cw_path] = OpenForWriting(cw_fs[cw_path])]
          /\ cw_last' = [cw_last EXCEPT ![cw_path] = NoWrite]
    /\ UNCHANGED <<cw_via, cw_path, cw_data, cw_schema, cw_fieldnames, cw_dirs,
                   cw_calls, ldVars, tpVars, pbVars, mnVars, mcVars, vzVars, pgVars>>

\* The call is over; the caller goes on.
CwReturn ==
    /\ cw_pc = "done"
    /\ cw_pc' = "idle"
    /\ cw_via' = ""
    /\ cw_path' = [dir |-> "", name |-> ""]
    /\ cw_data' = <<>>
    /\ cw_schema' = NoSchema
    /\ cw_fieldnames' = <<>>
    /\ cw_outcome' = CwNone
    /\ UNCHANGED <<cw_dirs, cw_fs, cw_last, cw_calls, ldVars, tpVars, pbVars, mnVars, mcVars, vzVars, pgVars>>

\* ====================================================================
\*  modules/powerbi.py
\* ====================================================================

\* Bounds of the modelled organization: how many workspaces the Admin API
\* lists at most and how many items (capacities; users, dashboards,
\* dataflows, datasets of a workspace) each of the other lists holds at most.
MaxWorkspaces == 2
MaxPbItems == 1

PbDatasetNames ==
    {"capacities", "workspaces", "workspace_users", "dashboards", "dataflows", "datasets"}

\* POWERBI_CSV_SCHEMAS
POWERBI_CSV_SCHEMAS ==
    [capacities |-> <<"id", "display_name", "admins", "sku", "state", "region">>,
     workspaces |-> <<"id", "name", "type", "state", "is_read_only",
                      "is_on_dedicated_capacity", "capacity_id">>,
     workspace_users |-> <<"workspace_id", "workspace_name", "group_user_access_right",
                           "email_address", "display_name", "identifier",
                           "principal_type", "user_type">>,
     dashboards |-> <<"id", "display_name", "workspace_id", "workspace_name",
                      "embed_url", "is_read_only", "web_url">>,
     dataflows |-> <<"object_id", "name", "description", "workspace_id",
                     "workspace_name", "configured_by", "modified_by",
                     "modified_date_time">>,
     datasets |-> <<"id", "name", "workspace_id", "workspace_name",
                    "add_rows_api_enabled", "configured_by", "created_date",
                    "is_refreshable", "is_effective_identity_required",
                    "is_effective_identity_roles_required",
                    "is_on_prem_gateway_required">>,
     default |-> <<"id", "name", "type">>]

\* The items of the "value" arrays the Admin API answers with, which
\* _api_get returns as they are (item i of a list; w is the workspace).
ApiCapacity(i) == [id |-> i, displayName |-> "capacity", sku |-> "P1", state |-> "Active"]
ApiGroup(i) == [id |-> ToString(i), name |-> "workspace", type |-> "Workspace", state |-> "Active"]
ApiUser(w, i) ==
    [identifier |-> <<w, i>>, emailAddress |-> "user@example.org",
     groupUserAccessRight |-> "Admin", principalType |-> "User"]
ApiDashboard(w, i) == [id |-> <<w, i>>, displayName |-> "dashboard", isReadOnly |-> "False"]
ApiDataflow(w, i) == [objectId |-> <<w, i>>, name |-> "dataflow"]
ApiDataset(w, i) == [id |-> <<w, i>>, name |-> "dataset", isRefreshable |-> "True"]

\* {"workspaceId": gid, **u}
WithWorkspace(gid, u) ==
    [k \in {"workspaceId"} \cup DOMAIN u |-> IF k \in DOMAIN u THEN u[k] ELSE gid]

\* The order of the six write_csv_with_schema calls (lines 232-237).
PbWriteSequence ==
    <<"capacities", "workspaces", "workspace_users", "dashboards", "dataflows", "datasets">>

\* The summary (lines 239-246).
PbSummary(c, g, u, d, df, ds) ==
    [capacities |-> Len(c), workspaces |-> Len(g), workspace_users |-> Len(u),
     dashboards |-> Len(d), dataflows |-> Len(df), datasets |-> Len(ds)]
PbNoSummary == [n \in PbDatasetNames |-> -1]

PbNone == [kind |-> "none", summary |-> PbNoSummary, exc |-> NoTopoExc]
PbReturned(sm) == [kind |-> "returned", summary |-> sm, exc |-> NoTopoExc]
PbRaised(e) == [kind |-> "raised", summary |-> PbNoSummary, exc |-> e]

\* raise Exception(f"Error fetching Power BI data: {str(e)}") (line 229)
FetchError(what) == [type |-> "Exception", what |-> "Error fetching Power BI data",
                     detail |-> ClientError(what)]

PbIdle ==
    /\ pb_pc = "idle"
    /\ pb_org = [workspaces |-> 0, items |-> 0]
    /\ capacities = <<>>
    /\ groups = <<>>
    /\ users = <<>>
    /\ dashboards = <<>>
    /\ dataflows = <<>>
    /\ datasets = <<>>
    /\ pb_todo = <<>>
    /\ pb_files = [n \in PbDatasetNames |-> AbsentFile]
    /\ pb_written = <<>>
    /\ pb_outcome = PbNone

PbRaises(e) ==
    /\ pb_pc' = "done"
    /\ pb_outcome' = PbRaised(e)

\* Line 210: capacities = _powerbi_manager.get_capacities().  Any exception
\* between lines 208 and 224 is caught at 225 and raised again as Exception.
PbGetCapacities ==
    /\ pb_pc = "capacities"
    /\ \/ /\ capacities' = [i \in 1..pb_org.items |-> ApiCapacity(i)]
          /\ pb_pc' = "groups"
          /\ UNCHANGED pb_outcome
       \/ /\ PbRaises(FetchError("capacities"))
          /\ UNCHANGED capacities
    /\ UNCHANGED <<pb_org, groups, users, dashboards, dataflows, datasets, pb_todo,
                   pb_files, pb_written, ldVars, tpVars, cwVars, mnVars, mcVars, vzVars, pgVars>>

\* Lines 211-218: groups = _powerbi_manager.get_groups(); the loop starts.
PbGetGroups ==
    /\ pb_pc = "groups"
    /\ \/ /\ groups' = [i \in 1..pb_org.workspaces |-> ApiGroup(i)]
          /\ pb_todo' = [i \in 1..pb_org.workspaces |-> ApiGroup(i)]
          /\ pb_pc' = IF pb_org.workspaces = 0 THEN "makedirs" ELSE "users"
          /\ UNCHANGED pb_outcome
       \/ /\ PbRaises(FetchError("groups"))
          /\ UNCHANGED <<groups, pb_todo>>
    /\ UNCHANGED <<pb_org, capacities, users, dashboards, dataflows, datasets,
                   pb_files, pb_written, ldVars, tpVars, cwVars, mnVars, mcVars, vzVars, pgVars>>

\* Lines 220-221, for the workspace g at the head of pb_todo.
PbGetGroupUsers ==
    /\ pb_pc = "users"
    /\ LET gid == Head(pb_todo).id
       IN \/ /\ users' = users \o [i \in 1..pb_org.items |->
                                      WithWorkspace(gid, ApiUser(gid, i))]
             /\ pb_pc' = "dashboards"
             /\ UNCHANGED pb_outcome
          \/ /\ PbRaises(FetchError("users"))
             /\ UNCHANGED users
    /\ UNCHANGED <<pb_org, capacities, groups, dashboards, dataflows, datasets,
                   pb_todo, pb_files, pb_written, ldVars, tpVars, cwVars, mnVars, mcVars, vzVars, pgVars>>

\* Line 222.
PbGetDashboards ==
    /\ pb_pc = "dashboards"
    /\ LET gid == Head(pb_todo).id
       IN \/ /\ dashboards' = dashboards \o [i \in 1..pb_org.items |->
                                      WithWorkspace(gid, ApiDashboard(gid, i))]
             /\ pb_pc' = "dataflows"
             /\ UNCHANGED pb_outcome
          \/ /\ PbRaises(FetchError("dashboards"))
             /\ UNCHANGED dashboards
    /\ UNCHANGED <<pb_org, capacities, groups, users, dataflows, datasets,
                   pb_todo, pb_files, pb_written, ldVars, tpVars, cwVars, mnVars, mcVars, vzVars, pgVars>>

\* Line 223.
PbGetDataflows ==
    /\ pb_pc = "dataflows"
    /\ LET gid == Head(pb_todo).id
       IN \/ /\ dataflows' = dataflows \o [i \in 1..pb_org.items |->
                                      WithWorkspace(gid, ApiDataflow(gid, i))]
             /\ pb_pc' = "datasets"
             /\ UNCHANGED pb_outcome
          \/ /\ PbRaises(FetchError("dataflows"))
             /\ UNCHANGED dataflows
    /\ UNCHANGED <<pb_org, capacities, groups, users, dashboards, datasets,
                   pb_todo, pb_files, pb_written, ldVars, tpVars, cwVars, mnVars, mcVars, vzVars, pgVars>>

\* Line 224, and the loop's next iteration or its end.
PbGetDatasets ==
    /\ pb_pc = "datasets"
    /\ LET gid == Head(pb_todo).id
       IN \/ /\ datasets' = datasets \o [i \in 1..pb_org.items |->
                                      WithWorkspace(gid, ApiDataset(gid, i))]
             /\ pb_todo' = Tail(pb_todo)
             /\ pb_pc' = IF Tail(pb_todo) = <<>> THEN "makedirs" ELSE "users"
             /\ UNCHANGED pb_outcome
          \/ /\ PbRaises(FetchError("datasets"))
             /\ UNCHANGED <<datasets, pb_todo>>
    /\ UNCHANGED <<pb_org, capacities, groups, users, dashboards, dataflows,
                   pb_files, pb_written, ldVars, tpVars, cwVars, mnVars, mcVars, vzVars, pgVars>>

\* Line 231: os.makedirs(output_dir, exist_ok=True).
PbMakedirs ==
    /\ pb_pc = "makedirs"
    /\ \/ pb_pc' = "write" /\ UNCHANGED pb_outcome
       \/ PbRaises(OSError("makedirs"))
    /\ UNCHANGED <<pb_org, capacities, groups, users, dashboards, dataflows,
                   datasets, pb_todo, pb_files, pb_written, ldVars, tpVars, cwVars, mnVars, mcVars, vzVars, pgVars>>

\* The data run hands to the write_csv_with_schema call for a dataset.
PbDataFor(name) ==
    CASE name = "capacities" -> capacities
      [] name = "workspaces" -> groups
      [] name = "workspace_users" -> users
      [] name = "dashboards" -> dashboards
      [] name = "dataflows" -> dataflows
      [] name = "datasets" -> datasets

\* Lines 232-253: the next write_csv_with_schema call; after the sixth, the
\* summary is returned.  A write that fails leaves the file as it was or
\* empty, and run raises.
PbWrite ==
    /\ pb_pc = "write"
    /\ Len(pb_written) < Len(PbWriteSequence)
    /\ LET name == PbWriteSequence[Len(pb_written) + 1]
       IN \/ /\ pb_files' = [pb_files EXCEPT ![name] =
                               WrittenFile(pb_files[name], PbDataFor(name),
                                           POWERBI_CSV_SCHEMAS[name])]
             /\ pb_written' = Append(pb_written, name)
             /\ IF Len(pb_written) + 1 = Len(PbWriteSequence)
                  THEN /\ pb_pc' = "done"
                       /\ pb_outcome' = PbReturned(PbSummary(capacities, groups, users,
                                                             dashboards, dataflows, datasets))
                  ELSE UNCHANGED <<pb_pc, pb_outcome>>
          \/ /\ \/ UNCHANGED pb_files
                \/ pb_files' = [pb_files EXCEPT ![name] = OpenForWriting(pb_files[name])]
             /\ UNCHANGED pb_written
             /\ PbRaises(OSError(name))
    /\ UNCHANGED <<pb_org, capacities, groups, users, dashboards, dataflows,
                   datasets, pb_todo, ldVars, tpVars, cwVars, mnVars, mcVars, vzVars, pgVars>>

\* ====================================================================
\*  main.py
\* ====================================================================

\* The module subparsers of main (lines 123-162) and the commands of each.
CliModules == {"fabric", "powerbi", "topology"}
CliCommands == [fabric |-> {"list", "get"},
                powerbi |-> {"list", "scan-data"},
                topology |-> {"collect", "visualize"}]

\* module_name_map.get(args.module_name, args.module_name) (lines 64-69)
ActualModuleName(m) == IF m = "topology" THEN "azure_topology" ELSE m
\* f"modules.{actual_module_name}"
ModulePath(m) == [package |-> "modules", name |-> ActualModuleName(m)]

\* The functions each dispatched module defines at module level:
\* modules/fabric.py defines the class FabricManager only,
\* modules/powerbi.py defines run (168), modules/azure_topology.py run (282).
ModuleFunctions == [fabric |-> {}, powerbi |-> {"run"}, azure_topology |-> {"run"}]

\* vars(args): module_name is always there; command is None when no
\* subcommand was given; func and the options are there or not.
OptionalKeys == {"command", "func", "subscription_id"}
NamespaceValues(m, k) ==
    IF k = "module_name" THEN {m}
    ELSE IF k = "command" THEN CliCommands[m] \cup {None}
    ELSE IF k = "func" THEN {"handler"}
    ELSE {"sub-1"}
Namespaces ==
    UNION {UNION {{ns \in [ks \cup {"module_name"} ->
                              UNION {NamespaceValues(m, k) :
                                        k \in ks \cup {"module_name"}}] :
                      \A k \in DOMAIN ns : ns[k] \in NamespaceValues(m, k)}
                  : ks \in SUBSET OptionalKeys}
           : m \in CliModules}

\* module_args = vars(args).copy() and the three pops (lines 58-62)
ModuleArgs(ns) ==
    [k \in DOMAIN ns \ {"module_name", "command", "func"} |-> ns[k]]

\* command = None; if hasattr(args, "command") and args.command: ... (71-74)
CommandOf(ns) ==
    IF "command" \in DOMAIN ns /\ ns["command"] # None
      THEN ns["command"] ELSE None

\* How run_module ends: it returns (the process then ends with status 0),
\* it calls sys.exit(1) in the handler of lines 94-101, or an exception
\* that is not an Exception leaves it uncaught.
NotEnded == [how |-> "none", status |-> -1, exc |-> NoExc]
FellThrough == [how |-> "return", status |-> 0, exc |-> NoExc]
SysExit(n) == [how |-> "sys.exit", status |-> n, exc |-> NoExc]
Uncaught(e) == [how |-> "uncaught", status |-> -1, exc |-> e]

\* except Exception as e: ... sys.exit(1)
MutHandlerReturns(e) == FellThrough
RunModuleHandler(e) ==
    IF e.type \in BaseExceptionOnly THEN Uncaught(e) ELSE SysExit(1)

\* The process's exit status is 1: by sys.exit(1), or by an uncaught
\* SystemExit carrying "1".  An uncaught KeyboardInterrupt ends the
\* process by SIGINT.
ExitsWithStatusOne(end) ==
    \/ end.how = "sys.exit" /\ end.status = 1
    \/ end.how = "uncaught" /\ end.exc = Exc("SystemExit", "1")

MainIdle ==
    /\ mn_pc = "idle"
    /\ namespace = [k \in {"module_name"} |-> "fabric"]
    /\ loaderCalls = <<>>
    /\ mn_end = NotEnded

\* Lines 56-83: prepare the arguments and call load_and_run.  What the
\* import does is the environment's choice.
MnCall ==
    /\ mn_pc = "start"
    /\ LET path == ModulePath(namespace["module_name"])
           module_args == ModuleArgs(namespace)
           cmd == CommandOf(namespace)
       IN /\ loaderCalls' = Append(loaderCalls,
                                   [module |-> path, args |-> module_args,
                                    command |-> cmd])
          /\ ld_pc' = "start"
          /\ importResult' \in ImportResults
          /\ moduleAttrs' = ModuleFunctions[path.name]
          /\ callerArgs' = [isNone |-> FALSE, map |-> module_args]
          /\ command' = cmd
          /\ heap' = HeapOf(module_args)
    /\ mn_pc' = "loading"
    /\ UNCHANGED <<args, func_name, calls, pending, outcome, namespace, mn_end,
                   tpVars, cwVars, pbVars, mcVars, vzVars, pgVars>>

\* Lines 85-101: load_and_run has returned or raised.
MnFinish ==
    /\ mn_pc = "loading"
    /\ ld_pc = "done"
    /\ mn_end' = IF outcome.kind = "returned"
                   THEN FellThrough
                   ELSE RunModuleHandler(outcome.exc)
    /\ mn_pc' = "done"
    /\ UNCHANGED <<namespace, loaderCalls, ldVars, tpVars, cwVars, pbVars, mcVars, vzVars, pgVars>>

\* ====================================================================
\*  The module-level managers of modules/azure_topology.py,
\*  modules/powerbi.py and modules/template_module.py
\* ====================================================================

\* How many entry-point invocations one process makes at most.
MaxInvocations == 3

\* The subscription_id argument of an invocation: None (not given) or an
\* identifier.
ScopeArgs == {None, "A", "B"}
Truthy(s) == s \notin {None, ""}
ManagedModules == {"azure_topology", "powerbi", "template_module"}
\* _topology_manager = None, _powerbi_manager = None, _template_manager = None
NoManager == "no manager"

\* azure_topology.py 314-316:
\*   if _topology_manager is None or (subscription_id and
\*          _topology_manager.subscription_id != subscription_id):
\*       _topology_manager = AzureTopologyManager(credential, subscription_id)
TopologyManager(cached, s) ==
    IF cached = NoManager \/ (Truthy(s) /\ cached # s) THEN s ELSE cached

\* powerbi.py 202-206:
\*   if subscription_id is None: subscription_id = "default"
\*   if _powerbi_manager is None or
\*          _powerbi_manager.subscription_id != subscription_id: ...
PowerbiScope(s) == IF s = None THEN "default" ELSE s
PowerbiManager(cached, s) ==
    IF cached = NoManager \/ cached # PowerbiScope(s) THEN PowerbiScope(s) ELSE cached

\* template_module.py 147-156 (and 180-189, 214-223):
\*   if not subscription_id: raise ValueError("Subscription ID is required")
\*   if _template_manager is None or
\*          _template_manager.subscription_id != subscription_id: ...
TemplateRejects(s) == ~Truthy(s)
TemplateManager(cached, s) ==
    IF cached = NoManager \/ cached # s THEN s ELSE cached

\* The scope an invocation asks for: what the manager serving it is to be
\* bound to.
RequestedScope(module, s) == IF module = "powerbi" THEN PowerbiScope(s) ELSE s

NoInvocation == [module |-> "", requested |-> None, key |-> None,
                 used |-> NoManager, reused |-> FALSE]
Invocation(module, s, cached, used) ==
    [module |-> module, requested |-> s, key |-> RequestedScope(module, s),
     used |-> used, reused |-> cached # NoManager /\ used = cached]

CacheIdle ==
    /\ managers = [m \in ManagedModules |-> NoManager]
    /\ mc_last = NoInvocation
    /\ mc_n = 0

\* One invocation of azure_topology.run.
McTopologyRun ==
    /\ mc_n \in 1..MaxInvocations
    /\ \E s \in ScopeArgs :
         LET cached == managers["azure_topology"]
             used == TopologyManager(cached, s)
         IN /\ managers' = [managers EXCEPT !["azure_topology"] = used]
            /\ mc_last' = Invocation("azure_topology", s, cached, used)
    /\ mc_n' = mc_n + 1
    /\ UNCHANGED <<ldVars, tpVars, cwVars, pbVars, mnVars, vzVars, pgVars>>

\* One invocation of powerbi.run.
McPowerbiRun ==
    /\ mc_n \in 1..MaxInvocations
    /\ \E s \in ScopeArgs :
         LET cached == managers["powerbi"]
             used == PowerbiManager(cached, s)
         IN /\ managers' = [managers EXCEPT !["powerbi"] = used]
            /\ mc_last' = Invocation("powerbi", s, cached, used)
    /\ mc_n' = mc_n + 1
    /\ UNCHANGED <<ldVars, tpVars, cwVars, pbVars, mnVars, vzVars, pgVars>>

\* One invocation of template_module.run, list or scan_data.
McTemplateRun ==
    /\ mc_n \in 1..MaxInvocations
    /\ \E s \in ScopeArgs :
         LET cached == managers["template_module"]
             used == TemplateManager(cached, s)
         IN IF TemplateRejects(s)
              THEN /\ mc_last' = Invocation("template_module", s, cached, NoManager)
                   /\ UNCHANGED managers
              ELSE /\ managers' = [managers EXCEPT !["template_module"] = used]
                   /\ mc_last' = Invocation("template_module", s, cached, used)
    /\ mc_n' = mc_n + 1
    /\ UNCHANGED <<ldVars, tpVars, cwVars, pbVars, mnVars, vzVars, pgVars>>

\* ====================================================================
\*  utils/visualisations.py
\* ====================================================================

\* The dataset files the function reads (lines 39-42), in reading order.
VizDatasets == {"subscriptions", "management_groups", "resource_groups", "resources"}
\* What a dataset file can be: not there, there with 0 bytes, there with a
\* header line only, there with a header and rows.
FileStates == {"missing", "zero", "header", "rows"}

\* pd.read_csv(file): FileNotFoundError for a missing file, EmptyDataError
\* for a file of 0 bytes, a DataFrame without rows for a header alone.
ReadCsv(f) ==
    IF f = "missing" THEN [ok |-> FALSE, frame |-> "unset", exc |-> Exc("FileNotFoundError", "")]
    ELSE IF f = "zero" THEN [ok |-> FALSE, frame |-> "unset", exc |-> Exc("EmptyDataError", "")]
    ELSE IF f = "header" THEN [ok |-> TRUE, frame |-> "empty", exc |-> NoExc]
    ELSE [ok |-> TRUE, frame |-> "rows", exc |-> NoExc]

\* Lines 53-69: management groups are read when the file exists and has
\* bytes; otherwise, and when reading fails, an empty DataFrame is used.
MgmtGroupsFrame(f) ==
    IF f \notin {"missing", "zero"} /\ ReadCsv(f).ok
      THEN ReadCsv(f).frame
      ELSE "empty"

\* The four renderers in calling order (lines 77-86).
Renderers == <<"create_mgmt_group_subscription_viz",
               "create_subscription_resource_group_viz",
               "create_resource_group_resources_viz",
               "create_complete_hierarchy_viz">>

\* A renderer's own handler (161-163, 220-222, 307-309, 432-434) logs the
\* exception of a failed rendering and returns None as a successful one does.
RendererCall(name, created) == [renderer |-> name, created |-> created]

VzNone == [kind |-> "none", val |-> FALSE, exc |-> NoExc]
VzReturned(v) == [kind |-> "returned", val |-> v, exc |-> NoExc]
VzRaised(e) == [kind |-> "raised", val |-> FALSE, exc |-> e]

\* except Exception as e: ... return False (lines 92-95)
VizHandler(e) == VzReturned(FALSE)

\* return True (line 90)
VizResult(rendered) == VzReturned(TRUE)

VizIdle ==
    /\ vz_pc = "idle"
    /\ vz_dir_ok = TRUE
    /\ vz_files = [d \in VizDatasets |-> "missing"]
    /\ vz_frames = [d \in VizDatasets |-> "unset"]
    /\ vz_rendered = <<>>
    /\ vz_result = VzNone

VzEnds(r) ==
    /\ vz_pc' = "done"
    /\ vz_result' = r

\* Line 35: os.makedirs(output_dir, exist_ok=True), before the try block.
VzMakedirs ==
    /\ vz_pc = "makedirs"
    /\ IF vz_dir_ok
         THEN vz_pc' = "check" /\ UNCHANGED vz_result
         ELSE VzEnds(VzRaised(Exc("OSError", "makedirs")))
    /\ UNCHANGED <<vz_dir_ok, vz_files, vz_frames, vz_rendered,
                   ldVars, tpVars, cwVars, pbVars, mnVars, mcVars, pgVars>>

\* Lines 45-47: if not os.path.exists(subscriptions_file): return False.
VzCheckPrimary ==
    /\ vz_pc = "check"
    /\ IF vz_files["subscriptions"] = "missing"
         THEN VzEnds(VzReturned(FALSE))
         ELSE vz_pc' = "load_subscriptions" /\ UNCHANGED vz_result
    /\ UNCHANGED <<vz_dir_ok, vz_files, vz_frames, vz_rendered,
                   ldVars, tpVars, cwVars, pbVars, mnVars, mcVars, pgVars>>

\* pd.read_csv of one dataset inside the outer try block; an exception
\* goes to the handler of lines 92-95.
VzRead(d, next) ==
    LET r == ReadCsv(vz_files[d])
    IN IF r.ok
         THEN /\ vz_frames' = [vz_frames EXCEPT ![d] = r.frame]
              /\ vz_pc' = next
              /\ UNCHANGED vz_result
         ELSE /\ VzEnds(VizHandler(r.exc))
              /\ UNCHANGED vz_frames

\* Line 51.
VzLoadSubscriptions ==
    /\ vz_pc = "load_subscriptions"
    /\ VzRead("subscriptions", "load_management_groups")
    /\ UNCHANGED <<vz_dir_ok, vz_files, vz_rendered,
                   ldVars, tpVars, cwVars, pbVars, mnVars, mcVars, pgVars>>

\* Lines 53-69.
VzLoadManagementGroups ==
    /\ vz_pc = "load_management_groups"
    /\ vz_frames' = [vz_frames EXCEPT !["management_groups"] =
                        MgmtGroupsFrame(vz_files["management_groups"])]
    /\ vz_pc' = "load_resource_groups"
    /\ UNCHANGED <<vz_dir_ok, vz_files, vz_rendered, vz_result,
                   ldVars, tpVars, cwVars, pbVars, mnVars, mcVars, pgVars>>

\* Line 71.
VzLoadResourceGroups ==
    /\ vz_pc = "load_resource_groups"
    /\ VzRead("resource_groups", "load_resources")
    /\ UNCHANGED <<vz_dir_ok, vz_files, vz_rendered,
                   ldVars, tpVars, cwVars, pbVars, mnVars, mcVars, pgVars>>

\* Line 72.
VzLoadResources ==
    /\ vz_pc = "load_resources"
    /\ VzRead("resources", "render")
    /\ UNCHANGED <<vz_dir_ok, vz_files, vz_rendered,
                   ldVars, tpVars, cwVars, pbVars, mnVars, mcVars, pgVars>>

\* Lines 77-86: the next renderer is called; it creates its image or fails
\* and swallows the failure.
VzRender ==
    /\ vz_pc = "render"
    /\ Len(vz_rendered) < Len(Renderers)
    /\ \E created \in BOOLEAN :
         vz_rendered' = Append(vz_rendered,
                               RendererCall(Renderers[Len(vz_rendered) + 1], created))
    /\ UNCHANGED <<vz_pc, vz_dir_ok, vz_files, vz_frames, vz_result,
                   ldVars, tpVars, cwVars, pbVars, mnVars, mcVars, pgVars>>

\* Lines 88-90.
VzReturn ==
    /\ vz_pc = "render"
    /\ Len(vz_rendered) = Len(Renderers)
    /\ VzEnds(VizResult(vz_rendered))
    /\ UNCHANGED <<vz_dir_ok, vz_files, vz_frames, vz_rendered,
                   ldVars, tpVars, cwVars, pbVars, mnVars, mcVars, pgVars>>

\* ====================================================================
\*  modules/powerbi.py: _get_access_token and _api_get
\* ====================================================================

\* Bounds: how many _api_get calls one manager serves, how many pages an
\* endpoint's result has at most, how many items a page carries.
MaxApiCalls == 2
MaxPages == 3
ItemsPerPage == 2

\* response.status_code != 200 (line 100)
StatusOk == 200
Forbidden == 403

\* What an endpoint serves: pages 1..pages, each linking to the next, the
\* last one without a link; page failAt (if not 0) answers with a status
\* other than 200.
Chains == {c \in [pages : 1..MaxPages, failAt : 0..MaxPages] : c.failAt <= c.pages}
StatusOf(c, p) == IF p = c.failAt THEN Forbidden ELSE StatusOk
\* data.get("value", []) of page p
PageItems(p) == [i \in 1..ItemsPerPage |-> [page |-> p, item |-> i]]
\* url = data.get("@odata.nextLink") or data.get("nextLink")
MutNextLinkIgnored(c, p) == 0
NextLink(c, p) == IF p < c.pages THEN p + 1 ELSE 0

\* self._token: Optional[str] = None (line 55)
NoToken == "no token"
\* if self._token: return self._token (lines 60-61)
MutTokenNeverCached(t) == FALSE
TokenCached(t) == t # NoToken

Exchange(via, ok) == [via |-> via, ok |-> ok]

NoResults == <<>>
PgNone == [kind |-> "none", val |-> NoResults, exc |-> NoExc]
PgReturned(v) == [kind |-> "returned", val |-> v, exc |-> NoExc]
PgRaised(e) == [kind |-> "raised", val |-> NoResults, exc |-> e]

\* raise AzureError("Failed to authenticate with Power BI API. ...") (90-92)
AuthenticationError == Exc("AzureError", "Failed to authenticate with Power BI API")
\* raise AzureError(error_message) (line 107), re-raised at 118
RequestFailed == Exc("AzureError", "Power BI API request failed")

ApiIdle ==
    /\ pg_pc = "idle"
    /\ pg_n = 0
    /\ pg_token = NoToken
    /\ pg_token0 = NoToken
    /\ pg_exchanges = <<>>
    /\ pg_chain = [pages |-> 1, failAt |-> 0]
    /\ pg_url = 0
    /\ pg_requests = <<>>
    /\ pg_results = NoResults
    /\ pg_outcome = PgNone

\* A caller starts _api_get(path) on the manager (lines 83-85).
PgCall ==
    /\ pg_pc \in {"ready", "done"}
    /\ pg_n < MaxApiCalls
    /\ pg_n' = pg_n + 1
    /\ pg_chain' \in Chains
    /\ pg_token0' = pg_token
    /\ pg_exchanges' = <<>>
    /\ pg_url' = 1
    /\ pg_requests' = <<>>
    /\ pg_results' = NoResults
    /\ pg_outcome' = PgNone
    /\ pg_pc' = "token"
    /\ UNCHANGED <<pg_token, ldVars, tpVars, cwVars, pbVars, mnVars, mcVars, vzVars>>

\* Lines 60-61: the cached token is returned.
PgCachedToken ==
    /\ pg_pc = "token"
    /\ TokenCached(pg_token)
    /\ pg_pc' = "request"
    /\ UNCHANGED <<pg_n, pg_token, pg_token0, pg_exchanges, pg_chain, pg_url,
                   pg_requests, pg_results, pg_outcome,
                   ldVars, tpVars, cwVars, pbVars, mnVars, mcVars, vzVars>>

\* Lines 66-72: get_credential_token(self.credential, [scope]) returns a
\* token, which is cached, or raises, which is logged.
PgDirectExchange ==
    /\ pg_pc = "token"
    /\ ~TokenCached(pg_token)
    /\ \E ok \in BOOLEAN :
         /\ pg_exchanges' = Append(pg_exchanges, Exchange("direct", ok))
         /\ IF ok
              THEN pg_token' = "direct token" /\ pg_pc' = "request"
              ELSE pg_token' = pg_token /\ pg_pc' = "msal"
    /\ UNCHANGED <<pg_n, pg_token0, pg_chain, pg_url, pg_requests, pg_results,
                   pg_outcome, ldVars, tpVars, cwVars, pbVars, mnVars, mcVars, vzVars>>

\* Lines 75-81 and 87-92: get_msal_token([scope]) returns a token, which
\* is cached, or raises; _api_get turns that into the AzureError of 90-92.
PgMsalExchange ==
    /\ pg_pc = "msal"
    /\ \E ok \in BOOLEAN :
         /\ pg_exchanges' = Append(pg_exchanges, Exchange("msal", ok))
         /\ IF ok
              THEN /\ pg_token' = "msal token"
                   /\ pg_pc' = "request"
                   /\ UNCHANGED pg_outcome
              ELSE /\ pg_token' = pg_token
                   /\ pg_pc' = "done"
                   /\ pg_outcome' = PgRaised(AuthenticationError)
    /\ UNCHANGED <<pg_n, pg_token0, pg_chain, pg_url, pg_requests, pg_results,
                   ldVars, tpVars, cwVars, pbVars, mnVars, mcVars, vzVars>>

\* Lines 96-113: one iteration of `while url`: the page is requested; a
\* status other than 200 raises, otherwise its items are appended and url
\* becomes the page's next link.
PgRequest ==
    /\ pg_pc = "request"
    /\ pg_url # 0
    /\ pg_requests' = Append(pg_requests, pg_url)
    /\ IF StatusOf(pg_chain, pg_url) # StatusOk
         THEN /\ pg_pc' = "done"
              /\ pg_outcome' = PgRaised(RequestFailed)
              /\ UNCHANGED <<pg_url, pg_results>>
         ELSE /\ pg_results' = pg_results \o PageItems(pg_url)
              /\ pg_url' = NextLink(pg_chain, pg_url)
              /\ UNCHANGED <<pg_pc, pg_outcome>>
    /\ UNCHANGED <<pg_n, pg_token, pg_token0, pg_exchanges, pg_chain,
                   ldVars, tpVars, cwVars, pbVars, mnVars, mcVars, vzVars>>

\* Line 120: return results.
PgReturn ==
    /\ pg_pc = "request"
    /\ pg_url = 0
    /\ pg_pc' = "done"
    /\ pg_outcome' = PgReturned(pg_results)
    /\ UNCHANGED <<pg_n, pg_token, pg_token0, pg_exchanges, pg_chain, pg_url,
                   pg_requests, pg_results,
                   ldVars, tpVars, cwVars, pbVars, mnVars, mcVars, vzVars>>

\* ====================================================================
\*  Specifications
\* ====================================================================

Init ==
    /\ ld_pc = "start"
    /\ importResult \in ImportResults
    /\ moduleAttrs \in SUBSET AttrNames
    /\ callerArgs \in {[isNone |-> TRUE, map |-> EmptyMap]}
                      \cup {[isNone |-> FALSE, map |-> m] : m \in ArgMaps}
    /\ command \in CommandNames \cup {None}
    /\ args = EmptyMap
    /\ func_name = None
    /\ calls = <<>>
    /\ pending = NoExc
    /\ outcome = NoOutcome
    /\ heap = HeapOf(DefaultArgs(callerArgs))
    /\ TopoIdle
    /\ CwIdle
    /\ PbIdle
    /\ MainIdle
    /\ CacheIdle
    /\ VizIdle
    /\ ApiIdle

Next ==
    \/ LdImport
    \/ LdResolve
    \/ LdInvoke
    \/ LdExceptImportError
    \/ LdExceptException
    \/ LdUncaught

Spec == Init /\ [][Next]_vars

TopoInit ==
    /\ LoaderIdle
    /\ CwIdle
    /\ PbIdle
    /\ MainIdle
    /\ CacheIdle
    /\ VizIdle
    /\ ApiIdle
    /\ tp_pc = "start"
    /\ tenancy \in [subs : 0..MaxSubs, items : 0..MaxItems]
    /\ faults = 0
    /\ subscription_id \in {NoFilter} \cup 1..MaxSubs
    /\ site = ""
    /\ callState = "none"
    /\ attempt = 0
    /\ tries = <<>>
    /\ sleeps = <<>>
    /\ lastError = NoError
    /\ subscriptions = <<>>
    /\ management_groups = <<>>
    /\ resource_groups = <<>>
    /\ resources = <<>>
    /\ all_resource_groups = <<>>
    /\ all_resources = <<>>
    /\ targets = <<>>
    /\ mgDegraded = FALSE
    /\ nestedCalls = <<>>
    /\ nestedLog = <<>>
    /\ files = LeftoverFiles
    /\ writeOrder = <<>>
    /\ tp_outcome = TpNone

TopoNext ==
    \/ TpStart
    \/ TpSubsClient
    \/ TpSubsAttempt
    \/ TpMgClient
    \/ TpMgAttempt
    \/ TpNestedClient
    \/ TpRgAttempt
    \/ TpResAttempt
    \/ TpWrite

TopoSpec == TopoInit /\ [][TopoNext]_vars

\* The directory and the files as earlier calls may have left them.
CsvInit ==
    /\ LoaderIdle
    /\ TopoIdle
    /\ PbIdle
    /\ MainIdle
    /\ CacheIdle
    /\ VizIdle
    /\ ApiIdle
    /\ cw_pc = "idle"
    /\ cw_via = ""
    /\ cw_path = [dir |-> "", name |-> ""]
    /\ cw_data = <<>>
    /\ cw_schema = NoSchema
    /\ cw_fieldnames = <<>>
    /\ cw_dirs \in {{}, {"out"}}
    /\ cw_fs \in [Paths -> {AbsentFile, OldFile}]
    /\ \A p \in Paths : (cw_fs[p].exists /\ Dirname(p) # "") => Dirname(p) \in cw_dirs
    /\ cw_last = [p \in Paths |-> NoWrite]
    /\ cw_calls = 0
    /\ cw_outcome = CwNone

CsvNext ==
    \/ CwCall
    \/ CwFieldnames
    \/ CwMakedirs
    \/ CwWrite
    \/ CwReturn

CsvSpec == CsvInit /\ [][CsvNext]_vars

\* The output directory holds no file yet, or the files of an earlier run.
PbiInit ==
    /\ LoaderIdle
    /\ TopoIdle
    /\ CwIdle
    /\ MainIdle
    /\ CacheIdle
    /\ VizIdle
    /\ ApiIdle
    /\ pb_pc = "capacities"
    /\ pb_org \in [workspaces : 0..MaxWorkspaces, items : 0..MaxPbItems]
    /\ capacities = <<>>
    /\ groups = <<>>
    /\ users = <<>>
    /\ dashboards = <<>>
    /\ dataflows = <<>>
    /\ datasets = <<>>
    /\ pb_todo = <<>>
    /\ pb_files \in {[n \in PbDatasetNames |-> AbsentFile],
                     [n \in PbDatasetNames |-> OldFile]}
    /\ pb_written = <<>>
    /\ pb_outcome = PbNone

PbiNext ==
    \/ PbGetCapacities
    \/ PbGetGroups
    \/ PbGetGroupUsers
    \/ PbGetDashboards
    \/ PbGetDataflows
    \/ PbGetDatasets
    \/ PbMakedirs
    \/ PbWrite

PbiSpec == PbiInit /\ [][PbiNext]_vars

MainInit ==
    /\ LoaderIdle
    /\ TopoIdle
    /\ CwIdle
    /\ PbIdle
    /\ mn_pc = "start"
    /\ namespace \in Namespaces
    /\ loaderCalls = <<>>
    /\ mn_end = NotEnded
    /\ CacheIdle
    /\ VizIdle
    /\ ApiIdle

MainNext ==
    \/ MnCall
    \/ LdImport
    \/ LdResolve
    \/ LdInvoke
    \/ LdExceptImportError
    \/ LdExceptException
    \/ LdUncaught
    \/ MnFinish

MainSpec == MainInit /\ [][MainNext]_vars

CacheInit ==
    /\ LoaderIdle
    /\ TopoIdle
    /\ CwIdle
    /\ PbIdle
    /\ MainIdle
    /\ managers = [m \in ManagedModules |-> NoManager]
    /\ mc_last = NoInvocation
    /\ mc_n = 1
    /\ VizIdle
    /\ ApiIdle

CacheNext ==
    \/ McTopologyRun
    \/ McPowerbiRun
    \/ McTemplateRun

CacheSpec == CacheInit /\ [][CacheNext]_vars

VizInit ==
    /\ LoaderIdle
    /\ TopoIdle
    /\ CwIdle
    /\ PbIdle
    /\ MainIdle
    /\ CacheIdle
    /\ vz_pc = "makedirs"
    /\ vz_dir_ok \in BOOLEAN
    /\ vz_files \in [VizDatasets -> FileStates]
    /\ vz_frames = [d \in VizDatasets |-> "unset"]
    /\ vz_rendered = <<>>
    /\ vz_result = VzNone
    /\ ApiIdle

VizNext ==
    \/ VzMakedirs
    \/ VzCheckPrimary
    \/ VzLoadSubscriptions
    \/ VzLoadManagementGroups
    \/ VzLoadResourceGroups
    \/ VzLoadResources
    \/ VzRender
    \/ VzReturn

VizSpec == VizInit /\ [][VizNext]_vars

ApiInit ==
    /\ LoaderIdle
    /\ TopoIdle
    /\ CwIdle
    /\ PbIdle
    /\ MainIdle
    /\ CacheIdle
    /\ VizIdle
    /\ pg_pc = "ready"
    /\ pg_n = 0
    /\ pg_token = NoToken
    /\ pg_token0 = NoToken
    /\ pg_exchanges = <<>>
    /\ pg_chain = [pages |-> 1, failAt |-> 0]
    /\ pg_url = 0
    /\ pg_requests = <<>>
    /\ pg_results = NoResults
    /\ pg_outcome = PgNone

ApiNext ==
    \/ PgCall
    \/ PgCachedToken
    \/ PgDirectExchange
    \/ PgMsalExchange
    \/ PgRequest
    \/ PgReturn

ApiSpec == ApiInit /\ [][ApiNext]_vars

\* --------------------------------------------------------------------
\*  Properties of load_and_run
\* --------------------------------------------------------------------

LdDone == ld_pc = "done"
\* The mapping the caller handed over ({} when it handed over None).
CallerMap == DefaultArgs(callerArgs)
\* kw is the caller's mapping plus the reserved key "command" bound to c.
IsCallerMapPlusCommand(kw, c) ==
    /\ DOMAIN kw = DOMAIN CallerMap \cup {"command"}
    /\ kw["command"] = c
    /\ \A k \in DOMAIN CallerMap \ {"command"} : kw[k] = CallerMap[k]
\* Exactly one entry point was invoked, once: the one named fn.
InvokedOnly(fn) == Len(calls) = 1 /\ calls[1].name = fn

\* C1 - Loader fallback: when the module has the default entry point
\* "run" but no attribute named after the requested command c, the call
\* invokes "run" with the caller's arguments plus "command" bound to c.
C1_Fallback ==
    (LdDone /\ importResult.ok /\ Given(command)
        /\ command \notin moduleAttrs /\ "run" \in moduleAttrs)
    => /\ InvokedOnly("run")
       /\ IsCallerMapPlusCommand(calls[1].kwargs, command)
C1_Witness ==
    /\ LdDone /\ importResult.ok /\ command = "list"
    /\ moduleAttrs = {"run", "get"}
    /\ ~callerArgs.isNone /\ DOMAIN callerArgs.map = {"subscription_id"}
    /\ InvokedOnly("run")
    /\ calls[1].kwargs["command"] = "list"

\* C2 as stated - Loader direct dispatch: when the module defines an entry
\* point named after the requested command c, the call invokes that entry
\* point with exactly the caller's arguments, no "command" key injected.
C2_AsStated ==
    (LdDone /\ importResult.ok /\ Given(command) /\ command \in moduleAttrs)
    => /\ InvokedOnly(command)
       /\ calls[1].kwargs = CallerMap
\* C2 amended - the same for every requested command c other than "run";
\* when c is "run" itself and the module defines "run", "run" is invoked
\* with the caller's arguments plus "command" bound to "run".
C2_DirectDispatch ==
    (LdDone /\ importResult.ok /\ Given(command) /\ command \in moduleAttrs)
    => /\ InvokedOnly(command)
       /\ command # "run" => calls[1].kwargs = CallerMap
       /\ command = "run" => IsCallerMapPlusCommand(calls[1].kwargs, "run")
C2_Witness ==
    /\ LdDone /\ importResult.ok /\ command = "list"
    /\ moduleAttrs = {"run", "list"}
    /\ ~callerArgs.isNone /\ DOMAIN callerArgs.map = {"subscription_id"}
    /\ InvokedOnly("list")
    /\ "command" \notin DOMAIN calls[1].kwargs

\* C3 - Loader default dispatch: when no command is given, the call invokes
\* the default entry point "run" with exactly the caller's arguments (no
\* "command" key is added to them), and no named command entry point, even
\* when the module defines some.
C3_DefaultDispatch ==
    (LdDone /\ importResult.ok /\ ~Given(command) /\ "run" \in moduleAttrs)
    => /\ InvokedOnly("run")
       /\ calls[1].kwargs = CallerMap
C3_Witness ==
    /\ LdDone /\ importResult.ok /\ command = None
    /\ moduleAttrs = {"run", "list", "get"}
    /\ ~callerArgs.isNone /\ DOMAIN callerArgs.map = {"subscription_id"}
    /\ InvokedOnly("run")
    /\ "command" \notin DOMAIN calls[1].kwargs

\* C4 - Loader hard-miss: when the resolved module has neither the
\* requested command's entry point nor "run" (or no command is given and
\* the module has no "run"), the call raises AttributeError and no entry
\* point is invoked.
C4_HardMiss ==
    (LdDone /\ importResult.ok /\ "run" \notin moduleAttrs
        /\ (Given(command) => command \notin moduleAttrs))
    => /\ outcome.kind = "raised"
       /\ outcome.exc.type = "AttributeError"
       /\ calls = <<>>
C4_Witness ==
    /\ LdDone /\ importResult.ok /\ command = "list" /\ moduleAttrs = {"get"}
    /\ outcome.kind = "raised" /\ outcome.exc.type = "AttributeError"

\* C5 - Module resolution failure: when the import raises ImportError, the
\* call ends by raising that same ImportError and invokes no entry point.
C5_ImportError ==
    (LdDone /\ ~importResult.ok /\ importResult.exc.type = "ImportError")
    => /\ outcome = Raised(importResult.exc)
       /\ calls = <<>>
C5_Witness ==
    /\ LdDone /\ ~importResult.ok
    /\ outcome.kind = "raised" /\ outcome.exc.type = "ImportError"
    /\ moduleAttrs = {"run"}

\* C6 - An exception raised inside the invoked entry point reaches the
\* caller as the same exception (same type and message), on the default,
\* the direct and the fallback path alike.
C6_EntryExceptionUnchanged ==
    (LdDone /\ calls # <<>> /\ calls[Len(calls)].beh.kind = "raise")
    => outcome = Raised(calls[Len(calls)].beh.exc)
C6_Witness ==
    /\ LdDone /\ command = "list" /\ moduleAttrs = {"run"}
    /\ InvokedOnly("run")
    /\ calls[1].beh.exc = Exc("ValueError", "Test error")
    /\ outcome.kind = "raised"

\* C7 - One call invokes at most one entry point, at most once, also when
\* the entry point raises; a call that returns returns exactly the value
\* the entry point returned.
C7_SingleInvocation ==
    /\ Len(calls) <= 1
    /\ (LdDone /\ outcome.kind = "returned")
        => /\ Len(calls) = 1
           /\ calls[1].beh.kind = "return"
           /\ outcome.val = calls[1].beh.val
C7_Witness ==
    /\ LdDone /\ outcome.kind = "returned" /\ outcome.val = "r2"
    /\ Len(calls) = 1

\* --------------------------------------------------------------------
\*  Properties of the retry-wrapped list calls and of run
\* --------------------------------------------------------------------

TpDone == tp_pc = "done"
CallFinished == callState \in {"ok", "exhausted"}
RetrySites == {"subscriptions", "management_groups", "resource_groups", "resources"}
\* The subscription ids of a list of subscription dictionaries.
IdsOf(subs) == [i \in 1..Len(subs) |-> subs[i].subscription_id]

\* C8 - Retry budget: every retry-wrapped list call (subscriptions,
\* management groups, resource groups, resources) is attempted at most 3
\* times; a sleep occurs only after a failed attempt that another attempt
\* follows, of duration 1 before attempt 2 and 2 before attempt 3; no sleep
\* follows a successful attempt or the third failure; a call that fails
\* twice and then succeeds incurs exactly the sleeps 1 and 2.
C8_RetryBudget ==
    callState # "none" =>
        /\ site \in RetrySites
        /\ Len(tries) <= 3
        /\ \A k \in 1..Len(sleeps) :
              /\ sleeps[k].after = k
              /\ k < 3
              /\ tries[k] = FALSE
              /\ sleeps[k].d = IF k = 1 THEN 1 ELSE 2
        /\ \A k \in 1..Len(tries) : tries[k] = TRUE => k = Len(tries)
        \* while the call runs, every failed attempt was followed by a sleep
        \* and the next attempt is due
        /\ callState = "running" =>
              /\ Len(sleeps) = Len(tries)
              /\ Len(tries) < 3
        \* once it has ended, nothing was slept after its last attempt
        /\ CallFinished => Len(sleeps) = Len(tries) - 1
        /\ callState = "ok" => tries[Len(tries)] = TRUE
        /\ callState = "exhausted" => tries = <<FALSE, FALSE, FALSE>>
        /\ tries = <<FALSE, FALSE, TRUE>> =>
              sleeps = <<[after |-> 1, d |-> 1], [after |-> 2, d |-> 2]>>
C8_Witness ==
    /\ site = "resources" /\ callState = "ok"
    /\ tries = <<FALSE, FALSE, TRUE>>
    /\ Len(sleeps) = 2 /\ sleeps[1].d = 1 /\ sleeps[2].d = 2

\* C9 - Primary-data failure is fatal: when the subscription-list call
\* fails on all 3 attempts, get_subscriptions raises AzureError carrying the
\* last failure's detail, run ends by raising it, nothing is written and no
\* summary is returned.
C9_PrimaryFatal ==
    (site = "subscriptions" /\ callState = "exhausted") =>
        /\ TpDone
        /\ tp_outcome.kind = "raised"
        /\ tp_outcome.exc.type = "AzureError"
        /\ tp_outcome.exc.detail = AttemptError("subscriptions", 3)
        /\ tp_outcome.summary = NoSummary
        /\ writeOrder = <<>>
        /\ nestedCalls = <<>>
C9_Witness ==
    /\ site = "subscriptions" /\ tries = <<FALSE, FALSE, FALSE>>
    /\ TpDone /\ tp_outcome.kind = "raised"
    /\ Len(subscriptions) = 2

\* C10 - Secondary-data failure degrades: when the management-groups call
\* fails on all 3 attempts, or its client cannot be created,
\* get_management_groups returns an empty list and does not raise; run goes
\* on to nested collection for every target subscription, and when it
\* returns (no file write failed) all four dataset files were written and
\* the summary's management_groups count is 0.
C10_SecondaryDegrades ==
    /\ (site = "management_groups" /\ callState = "exhausted") => mgDegraded
    /\ mgDegraded =>
          /\ management_groups = <<>>
          /\ tp_pc \in {"nested", "rg_list", "res_list", "write", "done"}
          /\ tp_pc \in {"write", "done"} =>
                nestedCalls = IdsOf(TargetSubscriptions(subscriptions, subscription_id))
          /\ tp_outcome.kind = "raised" =>
                /\ tp_outcome.exc.type = "OSError"
                /\ tp_outcome.exc.what \in DatasetNames
          /\ (TpDone /\ tp_outcome.kind # "raised") =>
                /\ tp_outcome.kind = "returned"
                /\ tp_outcome.summary.management_groups = 0
                /\ writeOrder = WriteSequence
                /\ \A n \in DatasetNames : files[n].exists /\ files[n] # OldFile
C10_Witness ==
    /\ site = "resources" /\ callState = "ok"
    /\ mgDegraded /\ faults = 3
    /\ TpDone /\ tp_outcome.kind = "returned"
    /\ tp_outcome.summary.management_groups = 0
    /\ tp_outcome.summary.resources > 0
    /\ Len(nestedCalls) = 2

\* --------------------------------------------------------------------
\*  Properties of run's aggregation and of the files it writes
\* --------------------------------------------------------------------

\* The subscriptions whose nested collection returned / raised.
Succeeded == {nestedLog[k].sub : k \in {k \in 1..Len(nestedLog) : nestedLog[k].ok}}
Failed == {nestedLog[k].sub : k \in {k \in 1..Len(nestedLog) : ~nestedLog[k].ok}}
\* The records the APIs list for subscription sub.
RgRecordsOf(sub) == {RgDict(sub, i) : i \in 1..tenancy.items}
ResourceRecordsOf(sub) == {ResourceDict(sub, i) : i \in 1..(tenancy.items * ResPageSize)}
Repeat(x, n) == [i \in 1..n |-> x]
\* Subscription by subscription in the order of the nested calls, the owner
\* of every record a succeeded call returned.
RECURSIVE RgOwners(_)
RgOwners(log) ==
    IF log = <<>> THEN <<>>
    ELSE (IF Head(log).ok THEN Repeat(Head(log).sub, Head(log).rgs) ELSE <<>>)
         \o RgOwners(Tail(log))
RECURSIVE ResourceOwners(_)
ResourceOwners(log) ==
    IF log = <<>> THEN <<>>
    ELSE (IF Head(log).ok THEN Repeat(Head(log).sub, Head(log).res) ELSE <<>>)
         \o ResourceOwners(Tail(log))
IsPrefix(a, b) == Len(a) <= Len(b) /\ a = SubSeq(b, 1, Len(a))

\* C11 - Scope isolation: whichever target subscriptions' nested
\* collection raises, run does not abort: every target subscription is
\* collected in turn, and the aggregated resource-group and resource lists
\* hold the records of the subscriptions whose collection returned, all of
\* them, subscription by subscription in the order of the calls, and no
\* record of a subscription whose collection raised, even when its resource
\* groups had been fetched before its resources call failed.
C11_ScopeIsolation ==
    nestedLog # <<>> =>
        /\ IsPrefix([k \in 1..Len(nestedLog) |-> nestedLog[k].sub],
                    IdsOf(TargetSubscriptions(subscriptions, subscription_id)))
        /\ tp_pc \in {"write", "done"} =>
              Len(nestedLog) = Len(TargetSubscriptions(subscriptions, subscription_id))
        /\ tp_outcome.kind = "raised" => tp_outcome.exc.type = "OSError"
        /\ IdsOf(all_resource_groups) = RgOwners(nestedLog)
        /\ IdsOf(all_resources) = ResourceOwners(nestedLog)
        /\ Elems(all_resource_groups) = UNION {RgRecordsOf(sub) : sub \in Succeeded}
        /\ Elems(all_resources) = UNION {ResourceRecordsOf(sub) : sub \in Succeeded}
        /\ \A sub \in Failed \ Succeeded :
              /\ \A i \in 1..Len(all_resource_groups) :
                    all_resource_groups[i].subscription_id # sub
              /\ \A i \in 1..Len(all_resources) :
                    all_resources[i].subscription_id # sub
C11_Witness ==
    /\ TpDone /\ tp_outcome.kind = "returned"
    /\ Len(nestedLog) = 2
    /\ ~nestedLog[1].ok /\ nestedLog[1].rgs > 0
    /\ nestedLog[2].ok /\ nestedLog[2].res > 0
    /\ Len(all_resource_groups) = 1 /\ Len(all_resources) = ResPageSize

\* No enumerated subscription has the identifier the filter asks for.
NoMatch == \A i \in 1..Len(subscriptions) :
              subscriptions[i].subscription_id # subscription_id
HeaderOnly(name) ==
    files[name] = [exists |-> TRUE, header |-> CSV_SCHEMAS[name], rows |-> <<>>]
Written(name) == \E k \in 1..Len(writeOrder) : writeOrder[k] = name

\* C12 - Scope filter: with a subscription_id filter, nested collection is
\* called only for enumerated subscriptions whose identifier equals the
\* filter; when the filter matches none of them no nested call is made, run
\* raises for no other reason than a failed enumeration or file write, the
\* resource_groups and resources files it writes hold their header only,
\* and the summary it returns counts 0 resource groups and 0 resources.
C12_ScopeFilter ==
    subscription_id # NoFilter =>
        /\ \A k \in 1..Len(nestedCalls) :
              /\ nestedCalls[k] = subscription_id
              /\ \E i \in 1..Len(subscriptions) :
                    subscriptions[i].subscription_id = nestedCalls[k]
        /\ NoMatch =>
              /\ nestedCalls = <<>>
              /\ all_resource_groups = <<>> /\ all_resources = <<>>
              /\ tp_outcome.kind = "raised" =>
                    \/ tp_outcome.exc.type = "OSError"
                    \/ site = "subscriptions" /\ callState = "exhausted"
                    \/ tp_outcome.exc.what = "Failed to initialize subscription client"
              /\ \A name \in {"resource_groups", "resources"} :
                    Written(name) => HeaderOnly(name)
              /\ tp_outcome.kind = "returned" =>
                    /\ tp_outcome.summary.resource_groups = 0
                    /\ tp_outcome.summary.resources = 0
                    /\ HeaderOnly("resource_groups") /\ HeaderOnly("resources")
C12_Witness ==
    /\ TpDone /\ tp_outcome.kind = "returned"
    /\ subscription_id = 2 /\ Len(subscriptions) = 1
    /\ tp_outcome.summary.subscriptions = 1
    /\ tp_outcome.summary.resources = 0
    /\ HeaderOnly("resources")

\* C13 - Aggregation and summary: a run that returns has written one file
\* per entity kind, each once, and the summary's count for every dataset
\* equals the number of data rows of its file; with 2 subscriptions whose
\* nested collection returned 1 resource group and 3 resources each, the
\* counts are subscriptions 2, resource_groups 2 and resources 6.
C13_SummaryCounts ==
    tp_outcome.kind = "returned" =>
        /\ TpDone
        /\ Len(writeOrder) = 4
        /\ Elems(writeOrder) = DatasetNames
        /\ DOMAIN files = DatasetNames
        /\ \A name \in DatasetNames :
              /\ files[name].exists
              /\ tp_outcome.summary[name] = Len(files[name].rows)
              /\ tp_outcome.summary[name] = Len(DataFor(name))
        /\ ( /\ Len(subscriptions) = 2
             /\ Len(nestedLog) = 2
             /\ \A k \in 1..2 :
                   nestedLog[k].ok /\ nestedLog[k].rgs = 1 /\ nestedLog[k].res = 3 )
           => /\ tp_outcome.summary.subscriptions = 2
              /\ tp_outcome.summary.resource_groups = 2
              /\ tp_outcome.summary.resources = 6
C13_Witness ==
    /\ TpDone /\ tp_outcome.kind = "returned"
    /\ Len(subscriptions) = 2 /\ Len(nestedLog) = 2
    /\ \A k \in 1..2 : nestedLog[k].ok /\ nestedLog[k].rgs = 1 /\ nestedLog[k].res = 3
    /\ Len(files["resources"].rows) = 6
    /\ tp_outcome.summary.resources = 6

\* The dataset whose _write_csv call is due, "" after the fourth.
DueDataset == IF Len(writeOrder) < 4 THEN WriteSequence[Len(writeOrder) + 1] ELSE ""
WriteFailed == tp_outcome.kind = "raised" /\ tp_outcome.exc.type = "OSError"
                  /\ tp_outcome.exc.what \in DatasetNames

\* C14 - Write failure: the datasets are written only after all
\* collection has finished, in the order subscriptions, management_groups,
\* resource_groups, resources; when writing a dataset fails the error
\* propagates out of run and no summary is returned, the files written
\* before it hold their complete new content, and the datasets after it are
\* not written in this run.
C14_WriteFailure ==
    /\ IsPrefix(writeOrder,
                <<"subscriptions", "management_groups", "resource_groups", "resources">>)
    /\ tp_pc \notin {"write", "done"} => writeOrder = <<>> /\ files = LeftoverFiles
    /\ writeOrder # <<>> => targets = <<>>
    /\ \A k \in 1..Len(writeOrder) :
          files[writeOrder[k]] = CsvFile(writeOrder[k], DataFor(writeOrder[k]))
    /\ \A name \in DatasetNames :
          (~Written(name) /\ name # DueDataset) => files[name] = LeftoverFiles[name]
    /\ WriteFailed =>
          /\ TpDone
          /\ tp_outcome.summary = NoSummary
          /\ tp_outcome.exc.what = DueDataset
          /\ ~Written(tp_outcome.exc.what)
C14_Witness ==
    /\ WriteFailed /\ tp_outcome.exc.what = "resource_groups"
    /\ writeOrder = <<"subscriptions", "management_groups">>
    /\ Len(files["subscriptions"].rows) = 2
    /\ files["subscriptions"] # OldFile
    /\ files["resources"] = AbsentFile
    /\ all_resources # <<>>

\* C19 - Topology output files are schema-stable: after every run that
\* returns, each of the four files has a header equal to its CSV_SCHEMAS
\* schema, in schema order, whether the dataset holds records or none.
C19_SchemaStable ==
    tp_outcome.kind = "returned" =>
        \A name \in DatasetNames : files[name].header = CSV_SCHEMAS[name]

\* --------------------------------------------------------------------
\*  Properties of write_csv_with_schema
\* --------------------------------------------------------------------

CwDone == cw_pc = "done"
CwFile == cw_fs[cw_path]
\* The call ended because the file system refused a directory or a file.
FileSystemRefused == cw_outcome.kind = "raised" /\ cw_outcome.exc.type = "OSError"
\* The keys observed in the records of data.
KeysOf(data) == UNION {DOMAIN data[r] : r \in 1..Len(data)}

\* C15 - Schema stability and graceful empty: for every record collection
\* R, the empty one included, and every schema S, unless the file system
\* refuses, write_csv_with_schema(path, R, S) does not raise and creates
\* the file, whose header row equals S in S's order whatever keys the
\* records have; when R is empty the file holds the header row only.
C15_SchemaStability ==
    (CwDone /\ cw_schema # NoSchema /\ ~FileSystemRefused) =>
        /\ cw_outcome.kind = "returned"
        /\ CwFile.exists
        /\ CwFile.header = cw_schema
        /\ cw_data = <<>> => CwFile.rows = <<>>

\* C16 - Row projection: with a schema S, write_csv_with_schema writes
\* exactly one row per record of R, in R's order; the cell of field f in
\* the row of record r is r's value for f when r has f and the empty
\* string otherwise; a key of r that is not in S appears in no header and
\* in no row.
C16_RowProjection ==
    (CwDone /\ cw_outcome.kind = "returned" /\ cw_schema # NoSchema) =>
        /\ Len(CwFile.rows) = Len(cw_data)
        /\ \A r \in 1..Len(cw_data) :
              /\ Len(CwFile.rows[r]) = Len(cw_schema)
              /\ \A c \in 1..Len(cw_schema) :
                    CwFile.rows[r][c] =
                        IF cw_schema[c] \in DOMAIN cw_data[r]
                          THEN cw_data[r][cw_schema[c]] ELSE ""
        /\ Len(CwFile.header) = Len(cw_schema)
        /\ \A key \in KeysOf(cw_data) \ Elems(cw_schema) : key \notin Elems(CwFile.header)
C16_Witness ==
    /\ CwDone /\ cw_outcome.kind = "returned"
    /\ cw_schema = <<"id", "name", "type">>
    /\ cw_data = <<[name |-> "b", location |-> "x"], [id |-> "1", name |-> "a"]>>
    /\ CwFile.rows = << <<"", "b", "">>, <<"1", "a", "">> >>

\* C17 - Idempotence and overwrite: after any sequence of successful
\* writes to one path the file's content is determined by the (R, S) of
\* the last write alone: the earlier content is replaced, never appended
\* to, and writing the same (R, S) twice leaves what writing it once leaves.
C17_Overwrite ==
    \A p \in Paths :
        cw_last[p].n > 0 =>
            /\ cw_fs[p] = WrittenFile(AbsentFile, cw_last[p].data, cw_last[p].schema)
            /\ cw_fs[p] = WrittenFile(cw_fs[p], cw_last[p].data, cw_last[p].schema)
            /\ Len(cw_fs[p].rows) = Len(cw_last[p].data)
C17_Witness ==
    /\ CwDone /\ cw_outcome.kind = "returned"
    /\ cw_last[cw_path].n = 2
    /\ cw_data = <<>>
    /\ CwFile.rows = <<>>
    /\ CwFile.header = <<"name", "id">>

\* C18 (as stated) - Schema omitted: for every R, the empty one included,
\* write_csv_with_schema(path, R, None) and write_csv(path, R) write a
\* header that is exactly the sorted union of the keys observed in R.
C18_AsStated ==
    (CwDone /\ cw_outcome.kind = "returned" /\ cw_schema = NoSchema) =>
        CwFile.header = SortedKeys(cw_data)

\* C18 (amended) - Schema omitted: for every non-empty R,
\* write_csv_with_schema(path, R, None) and write_csv(path, R) write a
\* header that is exactly the sorted union of the keys observed in R; for
\* the empty R they write the header id, name, type.
C18_SchemaOmitted ==
    /\ cw_via = "write_csv" => cw_schema = NoSchema
    /\ (CwDone /\ cw_outcome.kind = "returned" /\ cw_schema = NoSchema) =>
          /\ cw_data # <<>> =>
                /\ CwFile.header = SortedKeys(cw_data)
                /\ Elems(CwFile.header) = KeysOf(cw_data)
                /\ Len(CwFile.rows) = Len(cw_data)
          /\ cw_data = <<>> =>
                /\ CwFile.header = <<"id", "name", "type">>
                /\ CwFile.rows = <<>>
C18_Witness ==
    /\ CwDone /\ cw_outcome.kind = "returned"
    /\ cw_via = "write_csv"
    /\ cw_data = <<[name |-> "b", location |-> "x"], [id |-> "1", name |-> "a"]>>
    /\ CwFile.header = <<"id", "location", "name">>

\* --------------------------------------------------------------------
\*  Properties of the Power BI run
\* --------------------------------------------------------------------

\* The datasets whose records are fetched workspace by workspace.
ChildDatasets == {"workspace_users", "dashboards", "dataflows", "datasets"}
\* The cell of row r of a file under the header field f ("" when the file
\* has no such column).
CellOf(file, r, f) ==
    IF \E c \in 1..Len(file.header) : file.header[c] = f
      THEN file.rows[r][CHOOSE c \in 1..Len(file.header) : file.header[c] = f]
      ELSE ""

\* C20 - Parent linkage: for every workspace w and every user, dashboard,
\* dataflow and dataset record fetched for w, the row written for it in
\* workspace_users.csv, dashboards.csv, dataflows.csv or datasets.csv
\* carries w's identifier.
C20_ParentLinkage ==
    pb_outcome.kind = "returned" =>
        \A name \in ChildDatasets :
            /\ Len(pb_files[name].rows) = Len(PbDataFor(name))
            /\ \A r \in 1..Len(PbDataFor(name)) :
                  CellOf(pb_files[name], r, "workspace_id") = PbDataFor(name)[r].workspaceId

\* The calls made once per workspace inside the loop of lines 218-224.
NestedSites == {"users", "dashboards", "dataflows", "datasets"}

\* C21 - Scope isolation (Power BI): a failure of the users, dashboards,
\* dataflows or datasets call of one workspace does not abort the run; no
\* run ends by raising on account of a per-workspace call.
C21_NestedFailureIsolated ==
    pb_outcome.kind = "raised" => pb_outcome.exc.detail.site \notin NestedSites

\* --------------------------------------------------------------------
\*  Properties of the retry loops' results
\* --------------------------------------------------------------------

\* C29 - Retry result purity: when a retry-wrapped list call returns after
\* a successful attempt, the list it returns holds exactly the records of
\* that attempt, each once, whatever earlier failed attempts had yielded.
C29_RetryPurity ==
    /\ (site = "subscriptions" /\ callState = "ok") =>
          subscriptions = [i \in 1..tenancy.subs |-> SubDict(i)]
    /\ (site = "management_groups" /\ callState = "ok") =>
          management_groups = [i \in 1..tenancy.items |-> MgDict(i)]
    /\ (site = "resource_groups" /\ callState = "ok" /\ tp_pc = "res_list") =>
          resource_groups = [i \in 1..tenancy.items |->
                                RgDict(Head(targets).subscription_id, i)]
    /\ \A k \in 1..Len(nestedLog) :
          nestedLog[k].ok =>
              /\ nestedLog[k].rgs = tenancy.items
              /\ nestedLog[k].res = tenancy.items * ResPageSize

\* --------------------------------------------------------------------
\*  Properties of the caller's arguments
\* --------------------------------------------------------------------

\* C30 - Caller state not corrupted by dispatch: at every point of
\* load_and_run, on every path, the mapping the caller passed has the
\* keys and values it was passed with; the injected key "command" is
\* never stored in it.
C30_CallerArgsIntact ==
    ~callerArgs.isNone => heap["args"] = callerArgs.map
\* A finished call that injected the command: the entry point received
\* the key "command", the caller's mapping has not got it.
C30_Witness ==
    /\ LdDone /\ ~callerArgs.isNone
    /\ ShouldInject(func_name, command)
    /\ Len(calls) = 1 /\ calls[1].kwargs["command"] = command
    /\ heap["args_with_command"] = calls[1].kwargs
    /\ "command" \notin DOMAIN callerArgs.map
    /\ callerArgs.map # EmptyMap

\* --------------------------------------------------------------------
\*  Properties of run_module
\* --------------------------------------------------------------------

MnDone == mn_pc = "done"
\* The one load_and_run call run_module is to make for the parsed command
\* line: the mapped module, the options, the command or None.
ExpectedLoaderCall ==
    [module |-> [package |-> "modules",
                 name |-> IF namespace["module_name"] = "topology"
                            THEN "azure_topology"
                            ELSE namespace["module_name"]],
     args |-> [k \in DOMAIN namespace \ {"module_name", "command", "func"} |->
                  namespace[k]],
     command |-> IF "command" \in DOMAIN namespace
                   THEN namespace["command"] ELSE None]

\* C27 (as stated) - the process exits with status 1 if and only if the
\* loader raised.
C27_AsStated ==
    MnDone => (ExitsWithStatusOne(mn_end) <=> outcome.kind = "raised")

\* C27 - Failure signalling: run_module calls the loader exactly once, with
\* the mapped module, the parsed arguments minus module_name, command and
\* func, and the command (or none); it ends in sys.exit(1) if and only if
\* the loader raised an exception that is an Exception, an exception that
\* is not one leaves it uncaught, and when the loader returned (a partial
\* result included) it returns without exiting.
C27_FailureSignalling ==
    /\ Len(loaderCalls) <= 1
    /\ MnDone =>
          /\ loaderCalls = <<ExpectedLoaderCall>>
          /\ mn_end = SysExit(1) <=>
                (outcome.kind = "raised" /\ outcome.exc.type \notin BaseExceptionOnly)
          /\ (outcome.kind = "raised" /\ outcome.exc.type \in BaseExceptionOnly) =>
                mn_end = Uncaught(outcome.exc)
          /\ outcome.kind = "returned" => mn_end = FellThrough
\* "topology collect" with a func key in the namespace, the entry point
\* raising ValueError: the loader was called without func, the exit is 1.
C27_Witness ==
    /\ MnDone
    /\ namespace["module_name"] = "topology"
    /\ DOMAIN namespace = {"module_name", "command", "func", "subscription_id"}
    /\ namespace["command"] = "collect"
    /\ Len(calls) = 1
    /\ outcome = Raised(Exc("ValueError", "Test error"))
    /\ mn_end = SysExit(1)

\* C28 - Every module the command line dispatches to has the default entry
\* point: once the module is imported, load_and_run invokes an entry point
\* and never ends in the entry-point-missing error.
C28_DefaultEntryPoint ==
    (mn_pc \in {"loading", "done"} /\ LdDone /\ importResult.ok) =>
        /\ "run" \in moduleAttrs
        /\ Len(calls) = 1
        /\ outcome # Raised(EntryPointMissingError("run"))

\* --------------------------------------------------------------------
\*  Properties of the module-level managers
\* --------------------------------------------------------------------

\* C22 - Cache invalidation: the manager that serves an invocation is
\* bound to the scope the invocation asks for; a manager cached for
\* another scope is not reused.
C22_CacheInvalidation ==
    mc_last.used # NoManager => mc_last.used = mc_last.key

\* --------------------------------------------------------------------
\*  Properties of create_azure_topology_visualizations
\* --------------------------------------------------------------------

VzDone == vz_pc = "done"
\* The datasets other than the primary one, subscriptions.
SecondaryDatasets == VizDatasets \ {"subscriptions"}
RenderersInvoked == [i \in 1..Len(vz_rendered) |-> vz_rendered[i].renderer]

\* C25 - Visualize tolerance: with an output directory that can be
\* created, the call never raises; with the subscriptions file missing it
\* returns False and invokes no renderer; with the subscriptions file
\* readable, the four renderers are invoked whatever secondary file is
\* missing or has no content, and that dataset is passed as an empty set.
C25_VisualizeTolerance ==
    vz_dir_ok =>
        /\ vz_result.kind # "raised"
        /\ (VzDone /\ vz_files["subscriptions"] = "missing") =>
              /\ vz_result = VzReturned(FALSE)
              /\ vz_rendered = <<>>
        /\ (VzDone /\ vz_files["subscriptions"] \in {"header", "rows"}) =>
              /\ RenderersInvoked = Renderers
              /\ \A d \in SecondaryDatasets :
                    vz_files[d] \in {"missing", "zero", "header"} =>
                        vz_frames[d] = "empty"

\* C26 - The call returns True if and only if all four visualizations were
\* created; when the data loads, the four renderers are invoked once each,
\* in the order management groups/subscriptions, subscriptions/resource
\* groups, resource groups/resources, complete hierarchy.
C26_TrueIffAllCreated ==
    (VzDone /\ vz_result.kind = "returned") =>
        /\ vz_result.val <=>
              /\ Len(vz_rendered) = 4
              /\ \A i \in 1..Len(vz_rendered) : vz_rendered[i].created
        /\ vz_frames["resources"] # "unset" => RenderersInvoked = Renderers

\* --------------------------------------------------------------------
\*  Properties of the Power BI API calls
\* --------------------------------------------------------------------

PgDone == pg_pc = "done"
\* The pages 1..n, and their items in page order.
PagesUpTo(n) == [p \in 1..n |-> p]
RECURSIVE ItemsOfPages(_)
ItemsOfPages(n) ==
    IF n = 0 THEN <<>>
    ELSE ItemsOfPages(n - 1) \o [i \in 1..ItemsPerPage |-> [page |-> n, item |-> i]]

\* C23 - Token acquisition order: the direct exchange is tried first and
\* the MSAL exchange only after the direct one failed; when both fail the
\* API call raises without a request; a call on a manager that holds a
\* token makes no exchange and keeps that token.
C23_TokenOrder ==
    /\ Len(pg_exchanges) <= 2
    /\ Len(pg_exchanges) >= 1 => pg_exchanges[1].via = "direct"
    /\ Len(pg_exchanges) = 2 =>
          /\ ~pg_exchanges[1].ok
          /\ pg_exchanges[2].via = "msal"
    /\ (Len(pg_exchanges) = 2 /\ ~pg_exchanges[2].ok) =>
          /\ pg_outcome.kind = "raised"
          /\ pg_requests = <<>>
    /\ pg_requests # <<>> => pg_token # NoToken
    /\ pg_token0 # NoToken => (pg_exchanges = <<>> /\ pg_token = pg_token0)
\* The second call on a manager whose first call got its token by MSAL
\* after the direct exchange failed: it returns without any exchange.
C23_Witness ==
    /\ PgDone /\ pg_n = 2
    /\ pg_token0 = "msal token"
    /\ pg_exchanges = <<>>
    /\ pg_outcome.kind = "returned"

\* C24 - Pagination: one request per page, following the links from the
\* first page until a page has none; the result is the pages' items in
\* page order; a status other than 200 on any page makes the call raise,
\* with no partial result.
C24_Pagination ==
    /\ \A i \in 1..Len(pg_requests) : pg_requests[i] = i
    /\ pg_outcome.kind = "returned" =>
          /\ pg_chain.failAt = 0
          /\ pg_requests = PagesUpTo(pg_chain.pages)
          /\ pg_outcome.val = ItemsOfPages(pg_chain.pages)
    /\ (PgDone /\ pg_chain.failAt # 0 /\ pg_requests # <<>>) =>
          /\ pg_outcome = PgRaised(RequestFailed)
          /\ pg_requests = PagesUpTo(pg_chain.failAt)
\* Three pages, all answered with 200: three requests, all items returned.
C24_Witness ==
    /\ PgDone
    /\ pg_chain = [pages |-> 3, failAt |-> 0]
    /\ pg_requests = <<1, 2, 3>>
    /\ Len(pg_outcome.val) = 3 * ItemsPerPage

====
